---- MODULE Spec2Model ----
(***************************************************************************)
(* Model of the banking back-office dashboard (kaljuvee/banking-ai):       *)
(*   - the flat-file case store (utils/database.py) and the case page      *)
(*     handlers that mutate it (pages/5_Case_Management.py);               *)
(*   - the fuzzy customer matcher (pages/2_Customer_Verification.py).      *)
(*                                                                         *)
(* Dates 'YYYY-MM-DD' are day ordinals of the year 2024 (2024-01-15 = 15); *)
(* the wall clock counts ticks, TicksPerDay of them in a day, and          *)
(* strftime('%Y-%m-%d') truncates a clock value to its day.                *)
(* Strings that the code takes apart are sequences of tokens or of         *)
(* characters; all other strings are atoms.                                *)
(***************************************************************************)
EXTENDS Integers, Sequences, FiniteSets, TLC

VARIABLES
    cases,               \* content of data/cases.json: the list under "cases"
    clock,               \* datetime.now(), in ticks
    show_new_case_form,  \* st.session_state.show_new_case_form
    selected_case,       \* st.session_state.selected_case (None when unset)
    event,               \* the handler that ran last and what it reported
    trail,               \* per case: the stage it started in, the advances that
                         \* moved it, whether Close Case was used on it
    customers,           \* content of data/customers.csv, one record per row
    search,              \* the last verify_customer_advanced call: its query
                         \* and the list it returned
    probe,               \* the last fuzzy_match_score call: its arguments
                         \* and the score it returned
    payment_info,        \* the last calculate_payment_capability call: its
                         \* arguments and the dict it returned
    extraction,          \* the last call of the document extractor: the
                         \* function, its inputs and what came back
    lookup,              \* the last lookup by identifier: the function, the
                         \* key and what came back
    disk,                \* the data directory as the constructor of the
                         \* store finds and leaves it
    validation,          \* the last validate_account_balance call: its
                         \* arguments and the dict it returned
    payment_page,        \* st.session_state of the payment page, and the
                         \* button that ran last
    sessions,            \* per session: the store call it is in, and the
                         \* list of cases that call has read
    history              \* the store calls that returned, in order

caseVars == <<cases, clock, show_new_case_form, selected_case, event, trail>>
matchVars == <<customers, search, probe>>
pageVars == <<validation, payment_page, sessions, history>>
otherVars == <<payment_info, extraction, lookup, disk,
               validation, payment_page, sessions, history>>
vars == <<cases, clock, show_new_case_form, selected_case, event, trail,
          customers, search, probe, payment_info, extraction, lookup, disk,
          validation, payment_page, sessions, history>>

----------------------------------------------------------------------------
(* Bounds of the model *)

MaxCases == 4        \* cases in the store (3 seed cases + created ones)
MaxLen == 3          \* characters in a string handed to fuzzy_match_score alone
MaxFewRows == 2      \* rows of a customers.csv that holds part of the pool
MaxTicks == 4        \* clock ticks after construction
TicksPerDay == 2     \* clock granularity below one day
MaxCalls == 3          \* store calls begun by the sessions together
MaxStored == 6         \* cases the store holds when called directly
MaxAmount == 30      \* the largest amount of money, in steps of the input

----------------------------------------------------------------------------
(* Generic helpers *)

None == "None"

Min(S) == CHOOSE x \in S : \A y \in S : x <= y
Max(S) == CHOOSE x \in S : \A y \in S : x >= y

\* dict.update(other): keys of other overwrite, the rest is kept
DictUpdate(d, other) ==
    [k \in (DOMAIN d) \cup (DOMAIN other) |->
        IF k \in DOMAIN other THEN other[k] ELSE d[k]]

\* dict.get(key): the value, or None for a key that is absent
DictGet(d, key) == IF key \in DOMAIN d THEN d[key] ELSE None

\* d[key]: the value, or the KeyError raised for a key that is absent
KeyError == "KeyError"
DictItem(d, key) == IF key \in DOMAIN d THEN d[key] ELSE KeyError

----------------------------------------------------------------------------
(* Clock and date formatting *)

\* datetime.now().strftime('%Y-%m-%d'): the day a clock value falls in
strftime_date(t) == t \div TicksPerDay

\* datetime.now().strftime('%Y'): 2024 is a leap year of 366 days
strftime_year(t) == 2024 + (strftime_date(t) \div 366)

----------------------------------------------------------------------------
(* The workflow *)

\* pages/5_Case_Management.py:316-322, the stages in display order
workflow_stages ==
    << "document_processing", "customer_verification", "account_management",
       "payment_processing", "completed" >>

\* position of a stage in workflow_stages (0 for a token that is no stage)
StageIndex(stage) ==
    IF \E i \in DOMAIN workflow_stages : workflow_stages[i] = stage
    THEN CHOOSE i \in DOMAIN workflow_stages : workflow_stages[i] = stage
    ELSE 0

\* a successor table that wraps around from the last stage to the first
stage_progression_cyclic ==
    [ document_processing   |-> "customer_verification",
      customer_verification |-> "account_management",
      account_management    |-> "payment_processing",
      payment_processing    |-> "completed",
      completed             |-> "document_processing" ]

\* a successor table with one entry pointing two stages ahead
stage_progression_skip ==
    [ document_processing   |-> "account_management",
      customer_verification |-> "account_management",
      account_management    |-> "payment_processing",
      payment_processing    |-> "completed" ]

\* the successor table of the Advance Stage button
stage_progression ==
    [ document_processing   |-> "customer_verification",
      customer_verification |-> "account_management",
      account_management    |-> "payment_processing",
      payment_processing    |-> "completed" ]

\* the successor table of the Advance All Stages button
bulk_stage_progression ==
    [ document_processing   |-> "customer_verification",
      customer_verification |-> "account_management",
      account_management    |-> "payment_processing",
      payment_processing    |-> "completed" ]

\* the status choices of the bulk status selectbox
StatusChoices == {"Active", "Under Review", "Payment Processing", "Completed"}


----------------------------------------------------------------------------
(* The case store: utils/database.py *)

\* a notes paragraph; stamp is the day of a bulk note's "[YYYY-MM-DD HH:MM]"
\* prefix, NoStamp for text that carries none
NoStamp == 0 - 1
Para(stamp, text) == [stamp |-> stamp, text |-> text]

\* the cases written by _initialize_data_files when cases.json is absent
SeedCases ==
    << [ case_id |-> "CASE-2024-001", customer_id |-> "CUST-001",
         customer_name |-> <<"John", "Michael", "Doe">>,
         case_number |-> "CV-2024-001234", creditor |-> "ABC Collections Agency",
         amount_owed |-> 5000, garnishment_amount |-> 1250,
         status |-> "Active", date_created |-> 15, last_updated |-> 20,
         documents |-> <<"garnishment_order_1.pdf">>,
         notes |-> <<Para(NoStamp, "Initial garnishment order received and processed")>>,
         workflow_stage |-> "document_processing" ],
       [ case_id |-> "CASE-2024-002", customer_id |-> "CUST-002",
         customer_name |-> <<"Jane", "Elizabeth", "Smith">>,
         case_number |-> "CV-2024-005678", creditor |-> "XYZ Legal Services",
         amount_owed |-> 3400, garnishment_amount |-> 850,
         status |-> "Under Review", date_created |-> 18, last_updated |-> 22,
         documents |-> <<"court_notice_2.pdf">>,
         notes |-> <<Para(NoStamp, "Customer verification in progress")>>,
         workflow_stage |-> "customer_verification" ],
       [ case_id |-> "CASE-2024-003", customer_id |-> "CUST-004",
         customer_name |-> <<"Maria", "Elena", "Rodriguez">>,
         case_number |-> "CV-2024-009876", creditor |-> "Legal Recovery Associates",
         amount_owed |-> 8400, garnishment_amount |-> 2100,
         status |-> "Payment Processing", date_created |-> 10, last_updated |-> 25,
         documents |-> <<"account_freeze_order_3.pdf", "garnishment_order_3.pdf">>,
         notes |-> <<Para(NoStamp, "Account frozen, payment processing initiated")>>,
         workflow_stage |-> "payment_processing" ] >>

\* f"CASE-{year}-{n:03d}"
FormatCaseId(year, n) ==
    LET ids == [ y \in {2024, 2025} |->
                   IF y = 2024
                   THEN << "CASE-2024-001", "CASE-2024-002", "CASE-2024-003",
                           "CASE-2024-004", "CASE-2024-005", "CASE-2024-006",
                           "CASE-2024-007", "CASE-2024-008", "CASE-2024-009" >>
                   ELSE << "CASE-2025-001", "CASE-2025-002", "CASE-2025-003",
                           "CASE-2025-004", "CASE-2025-005", "CASE-2025-006",
                           "CASE-2025-007", "CASE-2025-008", "CASE-2025-009" >> ]
    IN  ids[year][n]

\* whether get_case_by_id finds a case (its result is not None)
Found(cs, case_id) == \E i \in DOMAIN cs : cs[i].case_id = case_id

\* BankingDatabase.get_case_by_id: the first case with that id, or None
get_case_by_id(cs, case_id) ==
    IF Found(cs, case_id)
    THEN cs[Min({i \in DOMAIN cs : cs[i].case_id = case_id})]
    ELSE None

\* create_case numbering the new case len(cases) instead of len(cases) + 1
create_case_id_from_len(cs, case_data, now) ==
    LET case_id == FormatCaseId(strftime_year(now), Len(cs))
        filled  == DictUpdate(case_data,
                      [ case_id        |-> case_id,
                        date_created   |-> strftime_date(now),
                        last_updated   |-> strftime_date(now),
                        status         |-> "Active",
                        workflow_stage |-> "document_processing" ])
    IN  << Append(cs, filled), case_id >>

\* BankingDatabase.create_case: <<the cases written back, the id returned>>
create_case(cs, case_data, now) ==
    LET case_id == FormatCaseId(strftime_year(now), Len(cs) + 1)
        filled  == DictUpdate(case_data,
                      [ case_id        |-> case_id,
                        date_created   |-> strftime_date(now),
                        last_updated   |-> strftime_date(now),
                        status         |-> IF "status" \in DOMAIN case_data
                                           THEN case_data["status"] ELSE "Active",
                        workflow_stage |-> IF "workflow_stage" \in DOMAIN case_data
                                           THEN case_data["workflow_stage"]
                                           ELSE "document_processing" ])
    IN  << Append(cs, filled), case_id >>

\* update_case without the line that stamps last_updated
update_case_no_stamp(cs, case_id, updates, now) ==
    LET hits == {i \in DOMAIN cs : cs[i].case_id = case_id}
    IN  IF hits = {} THEN cs
        ELSE [cs EXCEPT ![Min(hits)] = DictUpdate(cs[Min(hits)], updates)]

\* update_case stamping last_updated on every stored case
update_case_stamp_all(cs, case_id, updates, now) ==
    LET hits == {i \in DOMAIN cs : cs[i].case_id = case_id}
    IN  IF hits = {} THEN cs
        ELSE [i \in DOMAIN cs |->
                DictUpdate(IF i = Min(hits) THEN DictUpdate(cs[i], updates) ELSE cs[i],
                           [last_updated |-> strftime_date(now)])]

\* update_case whose write after the loop lands on the last case read
update_case_writes_on_miss(cs, case_id, updates, now) ==
    LET hits == {i \in DOMAIN cs : cs[i].case_id = case_id}
        i    == IF hits = {} THEN Len(cs) ELSE Min(hits)
    IN  [cs EXCEPT ![i] = DictUpdate(DictUpdate(cs[i], updates),
                                     [last_updated |-> strftime_date(now)])]

\* BankingDatabase.update_case: the cases written back
update_case(cs, case_id, updates, now) ==
    LET hits == {i \in DOMAIN cs : cs[i].case_id = case_id}
    IN  IF hits = {} THEN cs
        ELSE LET i == Min(hits)
             IN  [cs EXCEPT ![i] =
                    DictUpdate(DictUpdate(cs[i], updates),
                               [last_updated |-> strftime_date(now)])]


----------------------------------------------------------------------------
(* Strings of the matcher: sequences of one-character strings *)

UpperCase == << "A","B","C","D","E","F","G","H","I","J","K","L","M",
                "N","O","P","Q","R","S","T","U","V","W","X","Y","Z" >>
LowerCase == << "a","b","c","d","e","f","g","h","i","j","k","l","m",
                "n","o","p","q","r","s","t","u","v","w","x","y","z" >>

\* str.lower() of one character
LowerChar(c) ==
    IF \E k \in DOMAIN UpperCase : UpperCase[k] = c
    THEN LowerCase[CHOOSE k \in DOMAIN UpperCase : UpperCase[k] = c]
    ELSE c

\* str.lower()
lower(s) == [k \in DOMAIN s |-> LowerChar(s[k])]

\* the characters str.strip() and str.split() treat as whitespace
IsSpace(c) == c = " "

RECURSIVE lstrip(_)
lstrip(s) == IF s # <<>> /\ IsSpace(Head(s)) THEN lstrip(Tail(s)) ELSE s

RECURSIVE rstrip(_)
rstrip(s) == IF s # <<>> /\ IsSpace(s[Len(s)])
             THEN rstrip(SubSeq(s, 1, Len(s) - 1)) ELSE s

\* str.strip()
strip(s) == rstrip(lstrip(s))

\* `sub in s` for strings
contains(sub, s) ==
    \E k \in 0..(Len(s) - Len(sub)) : SubSeq(s, k + 1, k + Len(sub)) = sub

RECURSIVE split_from(_, _, _)
\* the scan of str.split(): `word` is the word being read, `words` those read
split_from(s, word, words) ==
    IF s = <<>>
    THEN IF word = <<>> THEN words ELSE Append(words, word)
    ELSE IF IsSpace(Head(s))
         THEN split_from(Tail(s), <<>>,
                         IF word = <<>> THEN words ELSE Append(words, word))
         ELSE split_from(Tail(s), Append(word, Head(s)), words)

\* str.split()
split(s) == split_from(s, <<>>, <<>>)

----------------------------------------------------------------------------
(* The matcher: pages/2_Customer_Verification.py *)

\* A score is an integer count of 1/ScoreUnit points, and a field weight an
\* integer count of thousandths: ScoreUnit = 1000 * WordScale, where WordScale
\* is a multiple of every word count a query of the model has, so that
\* (matches / len(search_words)) * 60 * field_weight is exact.
WordScale == 2 * 2 * 3 * 5 * 7
ScoreUnit == 1000 * WordScale

\* the default field_weight=1.0
FullWeight == 1000

\* matches: the search words that lie in, or hold, some target word
word_matches(search_words, target_words) ==
    Cardinality({ i \in DOMAIN search_words :
                    \E j \in DOMAIN target_words :
                        \/ contains(search_words[i], target_words[j])
                        \/ contains(target_words[j], search_words[i]) })

\* fuzzy_match_score with the word rule scoring by the share of target words
fuzzy_match_score_by_target(search_term, target, field_weight) ==
    IF search_term = <<>> \/ target = <<>> THEN 0
    ELSE LET st == strip(lower(search_term))
             tg == strip(lower(target))
         IN  IF st = tg THEN 100 * field_weight * WordScale
             ELSE IF contains(st, tg) \/ contains(tg, st)
                  THEN 80 * field_weight * WordScale
             ELSE LET matches == word_matches(split(st), split(tg))
                  IN  IF matches > 0
                      THEN (matches * 60 * field_weight * WordScale) \div Len(split(tg))
                      ELSE 0

\* fuzzy_match_score without the "Contains match" rule
fuzzy_match_score_no_contains(search_term, target, field_weight) ==
    IF search_term = <<>> \/ target = <<>> THEN 0
    ELSE LET st == strip(lower(search_term))
             tg == strip(lower(target))
         IN  IF st = tg THEN 100 * field_weight * WordScale
             ELSE LET matches == word_matches(split(st), split(tg))
                  IN  IF matches > 0
                      THEN (matches * 60 * field_weight * WordScale) \div Len(split(st))
                      ELSE 0

\* fuzzy_match_score with a floor of 20 where no rule fires
fuzzy_match_score_floor(search_term, target, field_weight) ==
    IF search_term = <<>> \/ target = <<>> THEN 0
    ELSE LET st == strip(lower(search_term))
             tg == strip(lower(target))
         IN  IF st = tg THEN 100 * field_weight * WordScale
             ELSE IF contains(st, tg) \/ contains(tg, st)
                  THEN 80 * field_weight * WordScale
             ELSE LET matches == word_matches(split(st), split(tg))
                  IN  IF matches > 0
                      THEN (matches * 60 * field_weight * WordScale) \div Len(split(st))
                      ELSE 20 * field_weight * WordScale

\* fuzzy_match_score(search_term, target, field_weight)
fuzzy_match_score(search_term, target, field_weight) ==
    IF search_term = <<>> \/ target = <<>> THEN 0
    ELSE LET st == strip(lower(search_term))
             tg == strip(lower(target))
         IN  IF st = tg THEN 100 * field_weight * WordScale
             ELSE IF contains(st, tg) \/ contains(tg, st)
                  THEN 80 * field_weight * WordScale
             ELSE LET search_words == split(st)
                      target_words == split(tg)
                      matches == word_matches(search_words, target_words)
                  IN  IF matches > 0
                      THEN (matches * 60 * field_weight * WordScale) \div Len(search_words)
                      ELSE 0

\* the weights with the name weighing 0.5
FieldWeight_heavy_name ==
    [ name |-> 500, account_number |-> 400, address |-> 150,
      phone |-> 25, email |-> 25 ]

\* the fields of a query and their weights
FieldWeight ==
    [ name |-> 400, account_number |-> 400, address |-> 150,
      phone |-> 25, email |-> 25 ]

\* match_details: the score of every query field that is not empty
match_details(customer, q) ==
    [ f \in {g \in DOMAIN FieldWeight : q[g] # <<>>} |->
        fuzzy_match_score(q[f], customer[f], FieldWeight[f]) ]

RECURSIVE SumOver(_, _)
SumOver(f, keys) ==
    IF keys = {} THEN 0
    ELSE LET k == CHOOSE x \in keys : TRUE
         IN  f[k] + SumOver(f, keys \ {k})

\* total_score of one customer
total_score(customer, q) ==
    LET details == match_details(customer, q)
    IN  SumOver(details, DOMAIN details)

\* the threshold test with >= for >
above_threshold_inclusive(total) == total >= 20 * ScoreUnit

\* if total_score > 20
above_threshold(total) == total > 20 * ScoreUnit

RECURSIVE collect(_, _, _)
\* the loop over customers.iterrows(): the matches appended, in store order
collect(cs, q, best_matches) ==
    IF cs = <<>> THEN best_matches
    ELSE LET customer == Head(cs)
             total == total_score(customer, q)
         IN  collect(Tail(cs), q,
                     IF above_threshold(total)
                     THEN Append(best_matches,
                                 [ customer |-> customer, total_score |-> total,
                                   match_details |-> match_details(customer, q) ])
                     ELSE best_matches)

RECURSIVE insert_desc_before_ties(_, _)
\* m put before the entries whose total_score equals its own
insert_desc_before_ties(sorted, m) ==
    IF sorted = <<>> THEN <<m>>
    ELSE IF Head(sorted).total_score > m.total_score
         THEN <<Head(sorted)>> \o insert_desc_before_ties(Tail(sorted), m)
         ELSE <<m>> \o sorted

RECURSIVE insert_desc(_, _)
\* m put after every entry whose total_score is not below its own
insert_desc(sorted, m) ==
    IF sorted = <<>> THEN <<m>>
    ELSE IF Head(sorted).total_score >= m.total_score
         THEN <<Head(sorted)>> \o insert_desc(Tail(sorted), m)
         ELSE <<m>> \o sorted

RECURSIVE sort_from(_, _)
sort_from(rest, sorted) ==
    IF rest = <<>> THEN sorted
    ELSE sort_from(Tail(rest), insert_desc(sorted, Head(rest)))

\* the sort left out
sort_by_score_skipped(best_matches) == best_matches

\* best_matches.sort(key=total_score, reverse=True): stable, highest first
sort_by_score(best_matches) == sort_from(best_matches, <<>>)

\* the slice left out
top_matches_all(best_matches) == best_matches

\* best_matches[:5]
top_matches(best_matches) == SubSeq(best_matches, 1, IF Len(best_matches) < 5 THEN Len(best_matches) ELSE 5)

\* verify_customer_advanced(customer_name, account_number, address, phone, email)
verify_customer_advanced(cs, q) ==
    top_matches(sort_by_score(collect(cs, q, <<>>)))

\* the float nan that read_csv gives for a cell left blank; it is not a string
nan == <<"nan">>

\* fuzzy_match_score raises AttributeError: a target that is nan passes the
\* test "not target" and has no lower()
fuzzy_match_raises(search_term, target) ==
    search_term # <<>> /\ target = nan

\* verify_customer_advanced raises: some supplied query field meets a nan cell
verify_customer_raises(cs, q) ==
    \E i \in DOMAIN cs, f \in DOMAIN FieldWeight :
        fuzzy_match_raises(q[f], cs[i][f])

\* the customers written by _initialize_data_files when customers.csv is absent
SeedCustomers ==
    << [ customer_id |-> "CUST-001",
         name |-> <<"J", "o", "h", "n", " ", "M", "i", "c", "h", "a", "e", "l", " ", "D", "o", "e">>,
         email |-> <<"j", "o", "h", "n", ".", "d", "o", "e", "@", "e", "m", "a", "i", "l", ".", "c", "o", "m">>,
         phone |-> <<"(", "5", "5", "5", ")", " ", "1", "2", "3", "-", "4", "5", "6", "7">>,
         account_number |-> <<"A", "C", "C", "-", "2", "0", "2", "4", "-", "0", "0", "1", "2", "3", "4">>,
         address |-> <<"1", "2", "3", " ", "M", "a", "i", "n", " ", "S", "t", "r", "e", "e", "t", ",", " ", "S", "a", "n", " ", "F", "r", "a", "n", "c", "i", "s", "c", "o", ",", " ", "C", "A", " ", "9", "4", "1", "0", "2">> ],
       [ customer_id |-> "CUST-002",
         name |-> <<"J", "a", "n", "e", " ", "E", "l", "i", "z", "a", "b", "e", "t", "h", " ", "S", "m", "i", "t", "h">>,
         email |-> <<"j", "a", "n", "e", ".", "s", "m", "i", "t", "h", "@", "e", "m", "a", "i", "l", ".", "c", "o", "m">>,
         phone |-> <<"(", "5", "5", "5", ")", " ", "2", "3", "4", "-", "5", "6", "7", "8">>,
         account_number |-> <<"A", "C", "C", "-", "2", "0", "2", "4", "-", "0", "0", "5", "6", "7", "8">>,
         address |-> <<"4", "5", "6", " ", "O", "a", "k", " ", "A", "v", "e", "n", "u", "e", ",", " ", "S", "a", "n", " ", "F", "r", "a", "n", "c", "i", "s", "c", "o", ",", " ", "C", "A", " ", "9", "4", "1", "0", "3">> ],
       [ customer_id |-> "CUST-003",
         name |-> <<"R", "o", "b", "e", "r", "t", " ", "J", "a", "m", "e", "s", " ", "J", "o", "h", "n", "s", "o", "n">>,
         email |-> <<"r", "o", "b", "e", "r", "t", ".", "j", "o", "h", "n", "s", "o", "n", "@", "e", "m", "a", "i", "l", ".", "c", "o", "m">>,
         phone |-> <<"(", "5", "5", "5", ")", " ", "3", "4", "5", "-", "6", "7", "8", "9">>,
         account_number |-> <<"A", "C", "C", "-", "2", "0", "2", "4", "-", "0", "0", "9", "8", "7", "6">>,
         address |-> <<"7", "8", "9", " ", "P", "i", "n", "e", " ", "S", "t", "r", "e", "e", "t", ",", " ", "S", "a", "n", " ", "F", "r", "a", "n", "c", "i", "s", "c", "o", ",", " ", "C", "A", " ", "9", "4", "1", "0", "4">> ],
       [ customer_id |-> "CUST-004",
         name |-> <<"M", "a", "r", "i", "a", " ", "E", "l", "e", "n", "a", " ", "R", "o", "d", "r", "i", "g", "u", "e", "z">>,
         email |-> <<"m", "a", "r", "i", "a", ".", "r", "o", "d", "r", "i", "g", "u", "e", "z", "@", "e", "m", "a", "i", "l", ".", "c", "o", "m">>,
         phone |-> <<"(", "5", "5", "5", ")", " ", "4", "5", "6", "-", "7", "8", "9", "0">>,
         account_number |-> <<"A", "C", "C", "-", "2", "0", "2", "4", "-", "1", "1", "2", "2", "3", "3">>,
         address |-> <<"3", "2", "1", " ", "E", "l", "m", " ", "S", "t", "r", "e", "e", "t", ",", " ", "S", "a", "n", " ", "F", "r", "a", "n", "c", "i", "s", "c", "o", ",", " ", "C", "A", " ", "9", "4", "1", "0", "5">> ],
       [ customer_id |-> "CUST-005",
         name |-> <<"D", "a", "v", "i", "d", " ", "M", "i", "c", "h", "a", "e", "l", " ", "C", "h", "e", "n">>,
         email |-> <<"d", "a", "v", "i", "d", ".", "c", "h", "e", "n", "@", "e", "m", "a", "i", "l", ".", "c", "o", "m">>,
         phone |-> <<"(", "5", "5", "5", ")", " ", "5", "6", "7", "-", "8", "9", "0", "1">>,
         account_number |-> <<"A", "C", "C", "-", "2", "0", "2", "4", "-", "4", "4", "5", "5", "6", "6">>,
         address |-> <<"6", "5", "4", " ", "M", "a", "p", "l", "e", " ", "D", "r", "i", "v", "e", ",", " ", "S", "a", "n", " ", "F", "r", "a", "n", "c", "i", "s", "c", "o", ",", " ", "C", "A", " ", "9", "4", "1", "0", "6">> ] >>

----------------------------------------------------------------------------
(* The case page: pages/5_Case_Management.py *)

\* what a handler run leaves for the checks to see: the handler, the case ids
\* it was applied to, the stage its single target had when it started, the
\* count or id it reported, and whether an exception reached the page
Event(op, ids, from, count, raised) ==
    [op |-> op, ids |-> ids, from |-> from, count |-> count, raised |-> raised]

\* the inputs the user can type or pick
\* (a bulk selection is a pair of listed cases; the status picked is one of
\* the four the selectbox offers, and no handler branches on it)
BulkSelections == {sel \in SUBSET (DOMAIN cases) : Cardinality(sel) = 2}
StatusInputs == {"Completed"}
NewCustomerNames == { <<"Ann", " - ", "Lee">> }
NoteTexts == { <<>>, <<Para(NoStamp, "call back")>> }
BulkNoteTexts == { "escalated" }

\* the label of a case in the bulk multiselect: f"{case_id} - {customer_name}"
case_option(case) == <<case.case_id>> \o <<" - ">> \o case.customer_name

\* case_option.split(' - ')[0]
option_case_id(option) ==
    LET seps == {i \in DOMAIN option : option[i] = " - "}
    IN  IF seps = {} THEN option
        ELSE SubSeq(option, 1, Min(seps) - 1)

\* the case id a bulk handler reads from an option (ids are single tokens)
OptionId(option) == option_case_id(option)[1]

\* the time the clock starts at: the day after the last seed update
ClockStart == (Max({SeedCases[i].last_updated : i \in DOMAIN SeedCases}) + 1) * TicksPerDay

\* a handler run takes one tick of the clock
Elapse == clock < ClockStart + MaxTicks /\ clock' = clock + 1

\* the trail of a case that enters the store in `stage`
NewTrail(stage) == [start |-> stage, advances |-> 0, closed |-> FALSE]

\* the trail after a handler run: a case whose stage moved without Close Case
\* was moved by one advance
Advanced(cs) ==
    [i \in DOMAIN trail |->
        IF cs[i].workflow_stage # cases[i].workflow_stage
        THEN [trail[i] EXCEPT !.advances = @ + 1]
        ELSE trail[i]]

\* no call made yet
NoSearch == [query |-> [f \in DOMAIN FieldWeight |-> <<>>], best_matches |-> <<>>,
             called |-> FALSE, raised |-> FALSE]
NoProbe == [search_term |-> <<>>, target |-> <<>>, field_weight |-> 0, score |-> 0,
            called |-> FALSE]

NoPayment ==
    [ called |-> FALSE, payment_possible |-> FALSE, current_balance |-> 0,
      overdraft_limit |-> 0, available_balance |-> 0, required_amount |-> 0,
      remaining_after_payment |-> 0, uses_overdraft |-> FALSE,
      overdraft_amount |-> 0 ]

\* a function that returned v, and one that let the exception e escape
Returned(v) == [raised |-> FALSE, exception |-> "", value |-> v]
Raised(e) == [raised |-> TRUE, exception |-> e, value |-> <<>>]

NoExtraction ==
    [ called |-> FALSE, fn |-> "none", document_text |-> <<>>,
      prompt |-> "none", reply |-> [kind |-> "none"],
      outcome |-> Returned([status |-> "none"]) ]

\* no lookup made yet; an Optional[Dict] is <<>> for None, <<d>> for a dict d
NoLookup ==
    [ called |-> FALSE, fn |-> "none", key |-> "", account_number |-> <<>>,
      outcome |-> Returned(<<>>) ]

\* the four data files
DataFiles == {"customers_file", "cases_file", "transactions_file", "documents_file"}

\* the transactions written when transactions.csv is absent
SeedTransactions ==
    << [transaction_id |-> "TXN-001", case_id |-> "CASE-2024-001",
        customer_id |-> "CUST-001", amount |-> 1250, status |-> "Completed"],
       [transaction_id |-> "TXN-002", case_id |-> "CASE-2024-002",
        customer_id |-> "CUST-002", amount |-> 850, status |-> "Processing"],
       [transaction_id |-> "TXN-003", case_id |-> "CASE-2024-003",
        customer_id |-> "CUST-004", amount |-> 2100, status |-> "Pending"] >>

\* the documents written when processed_documents.json is absent
SeedDocuments ==
    << [document_id |-> "DOC-001", filename |-> "garnishment_order_001.pdf",
        document_type |-> "garnishment_order", case_id |-> "CASE-2024-001",
        status |-> "Processed"],
       [document_id |-> "DOC-002", filename |-> "court_notice_002.pdf",
        document_type |-> "court_notice", case_id |-> "CASE-2024-002",
        status |-> "Processed"] >>

\* the data directory after the store was constructed in an empty directory
SeededDisk ==
    [ constructed |-> TRUE, raised |-> FALSE, dir_exists |-> TRUE,
      was_missing |-> DataFiles,
      exists |-> [f \in DataFiles |-> TRUE],
      customers_file |-> SeedCustomers, cases_file |-> SeedCases,
      transactions_file |-> SeedTransactions, documents_file |-> SeedDocuments ]

\* the pages other than the case page and the search form, before any call
\* no validate_account_balance call made yet
NoValidation ==
    [ called |-> FALSE, sufficient_funds |-> FALSE, account_balance |-> 0,
      overdraft_limit |-> 0, available_balance |-> 0, required_amount |-> 0,
      shortfall |-> 0, recommendation |-> "" ]

\* 'processing_step' not in st.session_state
NoStep == 0 - 1

\* st.session_state.payment_data = {}
NoPaymentData ==
    [ set |-> FALSE, payment_amount |-> 0, include_fees |-> FALSE,
      total_amount |-> 0 ]

\* the payment page on its first run: lines 147-150
FirstPaymentPage ==
    [ payment_stage |-> "setup", payment_data |-> NoPaymentData,
      processing_step |-> NoStep, op |-> "start", continues |-> 0 ]

\* the sessions that share the store
Sessions == {1, 2}

\* a session that is in no store call
IdleSession ==
    [ pc |-> "idle", fn |-> "", case_id |-> "", status |-> "", read |-> <<>> ]

InitPages ==
    /\ validation = NoValidation
    /\ payment_page = FirstPaymentPage
    /\ sessions = [s \in Sessions |-> IdleSession]
    /\ history = <<>>

InitOther ==
    /\ payment_info = NoPayment
    /\ extraction = NoExtraction
    /\ lookup = NoLookup
    /\ disk = SeededDisk
    /\ InitPages

Init ==
    /\ trail = [i \in DOMAIN SeedCases |-> NewTrail(SeedCases[i].workflow_stage)]
    /\ cases = SeedCases
    /\ clock = ClockStart
    /\ show_new_case_form = FALSE
    /\ selected_case = None
    /\ event = Event("start", {}, None, 0, FALSE)
    /\ customers = SeedCustomers
    /\ search = NoSearch
    /\ probe = NoProbe
    /\ InitOther

\* time passes with no handler running
Tick ==
    /\ UNCHANGED matchVars
    /\ UNCHANGED otherVars
    /\ Elapse
    /\ UNCHANGED <<cases, show_new_case_form, selected_case, event, trail>>

\* sidebar button "Create New Case"
ShowNewCaseForm ==
    /\ UNCHANGED matchVars
    /\ UNCHANGED otherVars
    /\ Elapse
    /\ show_new_case_form' = TRUE
    /\ event' = Event("show_form", {}, None, 0, FALSE)
    /\ UNCHANGED <<cases, selected_case, trail>>

\* form submit "Create Case"
CreateCase(name) ==
    /\ UNCHANGED matchVars
    /\ UNCHANGED otherVars
    /\ show_new_case_form
    /\ Len(cases) < MaxCases
    /\ Elapse
    /\ LET case_data ==
             [ customer_id |-> "CUST-100", customer_name |-> name,
               case_number |-> "CV-NEW", creditor |-> "New Creditor",
               amount_owed |-> 0, garnishment_amount |-> 0,
               status |-> "Active", workflow_stage |-> "document_processing",
               documents |-> <<>>,
               notes |-> <<Para(NoStamp, "Case created via web interface")>> ]
           made == create_case(cases, case_data, clock)
       IN  /\ cases' = made[1]
           /\ event' = Event("create", {made[2]}, None, Len(made[1]), FALSE)
           /\ trail' = Append(trail, NewTrail(made[1][Len(made[1])].workflow_stage))
    /\ show_new_case_form' = FALSE
    /\ UNCHANGED selected_case

\* button "View Details" of a listed case
ViewDetails(i) ==
    /\ UNCHANGED matchVars
    /\ UNCHANGED otherVars
    /\ Elapse
    /\ selected_case' = cases[i].case_id
    /\ event' = Event("view", {}, None, 0, FALSE)
    /\ UNCHANGED <<cases, show_new_case_form, trail>>

\* the lookup written as stage_progression[case['workflow_stage']]
next_stage_subscript(stage) == DictItem(stage_progression, stage)

\* new_stage = stage_progression.get(case['workflow_stage'])
next_stage(stage) == DictGet(stage_progression, stage)

\* button "Advance Stage" of a listed case; an exception raised in the tab is
\* caught by its try/except and shown with st.error
AdvanceStage(i) ==
    /\ UNCHANGED matchVars
    /\ UNCHANGED otherVars
    /\ Elapse
    /\ LET case      == cases[i]
           new_stage == next_stage(case.workflow_stage)
           advanced  == new_stage \notin {None, KeyError}
       IN  /\ cases' = IF advanced
                       THEN update_case(cases, case.case_id,
                                        [workflow_stage |-> new_stage], clock)
                       ELSE cases
           /\ event' = Event("advance", {case.case_id}, case.workflow_stage,
                             IF advanced THEN 1 ELSE 0, new_stage = KeyError)
           /\ trail' = IF advanced THEN [trail EXCEPT ![i].advances = @ + 1]
                       ELSE trail
    /\ UNCHANGED <<show_new_case_form, selected_case>>

\* Close Case with the stage written like the status label
close_updates_label == [status |-> "Completed", workflow_stage |-> "Completed"]

\* Close Case that sets the status alone
close_updates_status_only == [status |-> "Completed"]

\* the updates of Close Case
close_updates == [status |-> "Completed", workflow_stage |-> "completed"]

\* button "Close Case" of a listed case; it is drawn only for an open case
CloseCase(i) ==
    /\ UNCHANGED matchVars
    /\ UNCHANGED otherVars
    /\ cases[i].workflow_stage # "completed"
    /\ Elapse
    /\ cases' = update_case(cases, cases[i].case_id, close_updates, clock)
    /\ event' = Event("close", {cases[i].case_id}, cases[i].workflow_stage, 1, FALSE)
    /\ trail' = [trail EXCEPT ![i].closed = TRUE]
    /\ UNCHANGED <<show_new_case_form, selected_case>>


\* the options picked in the bulk multiselect, in list order
Options(sel) ==
    LET RECURSIVE Pick(_)
        Pick(rest) == IF rest = {} THEN <<>>
                      ELSE <<case_option(cases[Min(rest)])>> \o Pick(rest \ {Min(rest)})
    IN  Pick(sel)

RECURSIVE bulk_update_status_closes(_, _, _, _)
\* a bulk status update that closes each case it touches
bulk_update_status_closes(cs, options, new_status, now) ==
    IF options = <<>> THEN cs
    ELSE bulk_update_status_closes(
             update_case(cs, OptionId(Head(options)),
                         [status |-> new_status, workflow_stage |-> "completed"],
                         now),
             Tail(options), new_status, now)

RECURSIVE bulk_update_status(_, _, _, _)
\* for case_option in selected_cases: db.update_case(case_id, {'status': new_status})
bulk_update_status(cs, options, new_status, now) ==
    IF options = <<>> THEN cs
    ELSE bulk_update_status(
             update_case(cs, OptionId(Head(options)), [status |-> new_status], now),
             Tail(options), new_status, now)

\* button "Update Status" of the bulk tab
UpdateStatus(sel, new_status) ==
    /\ UNCHANGED matchVars
    /\ UNCHANGED otherVars
    /\ sel # {}
    /\ Elapse
    /\ cases' = bulk_update_status(cases, Options(sel), new_status, clock)
    /\ event' = Event("bulk_status", {cases[i].case_id : i \in sel}, None,
                      Cardinality(sel), FALSE)
    /\ UNCHANGED <<show_new_case_form, selected_case, trail>>

\* the bulk lookup in a table with one entry pointing two stages ahead
bulk_next_stage_skip(stage) == DictGet(stage_progression_skip, stage)

\* new_stage = stage_progression.get(case['workflow_stage']) of the bulk loop
bulk_next_stage(stage) == DictGet(bulk_stage_progression, stage)

RECURSIVE bulk_advance(_, _, _, _)
\* the loop of "Advance All Stages": <<the cases written back, updated_count>>
bulk_advance(cs, options, updated_count, now) ==
    IF options = <<>> THEN <<cs, updated_count>>
    ELSE LET case_id   == OptionId(Head(options))
             case      == get_case_by_id(cs, case_id)
             new_stage == IF ~Found(cs, case_id) THEN None
                          ELSE bulk_next_stage(case.workflow_stage)
         IN  IF new_stage # None
             THEN bulk_advance(
                      update_case(cs, case_id, [workflow_stage |-> new_stage], now),
                      Tail(options), updated_count + 1, now)
             ELSE bulk_advance(cs, Tail(options), updated_count, now)

\* button "Advance All Stages" of the bulk tab
AdvanceAll(sel) ==
    /\ UNCHANGED matchVars
    /\ UNCHANGED otherVars
    /\ sel # {}
    /\ Elapse
    /\ LET done == bulk_advance(cases, Options(sel), 0, clock)
       IN  /\ cases' = done[1]
           /\ event' = Event("bulk_advance", {cases[i].case_id : i \in sel}, None,
                             done[2], FALSE)
           /\ trail' = Advanced(done[1])
    /\ UNCHANGED <<show_new_case_form, selected_case>>

\* button "Save Notes" of the details tab, drawn when the selected case exists
SaveNotes(new_notes) ==
    /\ UNCHANGED matchVars
    /\ UNCHANGED otherVars
    /\ selected_case # None
    /\ Found(cases, selected_case)
    /\ Elapse
    /\ cases' = update_case(cases, selected_case, [notes |-> new_notes], clock)
    /\ event' = Event("save_notes", {selected_case},
                      get_case_by_id(cases, selected_case).workflow_stage, 1, FALSE)
    /\ UNCHANGED <<show_new_case_form, selected_case, trail>>

RECURSIVE bulk_add_notes(_, _, _, _)
\* the loop of "Add Notes to Selected Cases"
bulk_add_notes(cs, options, bulk_notes, now) ==
    IF options = <<>> THEN cs
    ELSE LET case_id == OptionId(Head(options))
             case    == get_case_by_id(cs, case_id)
         IN  IF ~Found(cs, case_id)
             THEN bulk_add_notes(cs, Tail(options), bulk_notes, now)
             ELSE LET existing_notes == case.notes
                      new_notes == IF existing_notes # <<>>
                                   THEN Append(existing_notes, Para(now, bulk_notes))
                                   ELSE <<Para(NoStamp, bulk_notes)>>
                  IN  bulk_add_notes(
                          update_case(cs, case_id, [notes |-> new_notes], now),
                          Tail(options), bulk_notes, now)

\* button "Add Notes to Selected Cases" of the bulk tab
AddBulkNotes(sel, bulk_notes) ==
    /\ UNCHANGED matchVars
    /\ UNCHANGED otherVars
    /\ sel # {}
    /\ Elapse
    /\ cases' = bulk_add_notes(cases, Options(sel), bulk_notes, clock)
    /\ event' = Event("bulk_notes", {cases[i].case_id : i \in sel}, None,
                      Cardinality(sel), FALSE)
    /\ UNCHANGED <<show_new_case_form, selected_case, trail>>

Next ==
    \/ Tick
    \/ ShowNewCaseForm
    \/ \E name \in NewCustomerNames : CreateCase(name)
    \/ \E i \in DOMAIN cases : ViewDetails(i)
    \/ \E i \in DOMAIN cases : AdvanceStage(i)
    \/ \E i \in DOMAIN cases : CloseCase(i)
    \/ \E sel \in BulkSelections, new_status \in StatusInputs :
           UpdateStatus(sel, new_status)
    \/ \E sel \in BulkSelections : AdvanceAll(sel)
    \/ \E new_notes \in NoteTexts : SaveNotes(new_notes)
    \/ \E sel \in BulkSelections, bulk_notes \in BulkNoteTexts :
           AddBulkNotes(sel, bulk_notes)

Spec == Init /\ [][Next]_vars


----------------------------------------------------------------------------
(* Case workflow claims *)

\* the index in `cases` of the case with this id
IndexOf(case_id) == Min({i \in DOMAIN cases : cases[i].case_id = case_id})

\* the single case the last handler was applied to
Target == cases[IndexOf(CHOOSE id \in event.ids : TRUE)]

\* C1: over every step of the case page (create, Advance Stage, Advance All
\* Stages, Close Case, bulk status update, notes), each stored case stays in
\* place and the position of its workflow_stage in the stage order never
\* decreases; a completed case stays completed.
C1_StageNeverDecreases ==
    [][\A i \in DOMAIN cases :
          /\ i \in DOMAIN cases'
          /\ cases'[i].case_id = cases[i].case_id
          /\ StageIndex(cases'[i].workflow_stage) >= StageIndex(cases[i].workflow_stage)
          /\ (cases[i].workflow_stage = "completed"
                => cases'[i].workflow_stage = "completed")]_vars

\* a case that was moved to completed has since been through a bulk status
\* update, and another case stands later than the stage it started in
C1_Witness ==
    /\ event.op = "bulk_status"
    /\ \E i \in DOMAIN cases :
          /\ cases[i].case_id \in event.ids
          /\ cases[i].workflow_stage = "completed"
          /\ trail[i].start # "completed"
    /\ \E j \in DOMAIN cases :
          /\ cases[j].workflow_stage # "completed"
          /\ StageIndex(cases[j].workflow_stage) > StageIndex(trail[j].start)

\* C2: Advance Stage on a case that is not completed moves it to the stage
\* right after its own; hence a case never closed stands exactly as many
\* stages after its first as advances moved it, and a case that started in
\* document_processing is completed exactly when 4 advances have moved it.
C2_AdvanceMovesOneStage ==
    /\ [][\A i \in DOMAIN cases :
            (AdvanceStage(i) /\ cases[i].workflow_stage # "completed")
               => StageIndex(cases'[i].workflow_stage)
                    = StageIndex(cases[i].workflow_stage) + 1]_vars
    /\ [](\A i \in DOMAIN cases :
            ~trail[i].closed =>
               /\ StageIndex(cases[i].workflow_stage)
                    = StageIndex(trail[i].start) + trail[i].advances
               /\ (trail[i].start = "document_processing" =>
                     (cases[i].workflow_stage = "completed" <=> trail[i].advances = 4)))

\* a case that started in document_processing reached completed by the
\* Advance Stage button alone, in 4 advances
C2_Witness ==
    /\ event.op = "advance"
    /\ event.from = "payment_processing"
    /\ \E i \in DOMAIN cases :
          /\ cases[i].case_id \in event.ids
          /\ trail[i] = [start |-> "document_processing", advances |-> 4,
                         closed |-> FALSE]
          /\ cases[i].workflow_stage = "completed"

\* C3: Advance Stage on a completed case raises nothing and leaves the whole
\* case store as it was; Advance All Stages raises nothing and leaves every
\* selected completed case (stage and last_updated included) as it was.
C3_AdvanceOnCompletedIsNoOp ==
    [][ /\ (event'.op = "advance" /\ event'.from = "completed")
              => (cases' = cases /\ ~event'.raised /\ event'.count = 0)
        /\ (event'.op = "bulk_advance")
              => /\ ~event'.raised
                 /\ \A i \in DOMAIN cases :
                       (cases[i].case_id \in event'.ids
                          /\ cases[i].workflow_stage = "completed")
                             => cases'[i] = cases[i] ]_vars

\* Advance Stage has run on a case that was completed already
C3_Witness ==
    /\ event.op = "advance"
    /\ event.from = "completed"
    /\ event.count = 0
    /\ Target.workflow_stage = "completed"

\* C4: in every reachable state of the case store every case's workflow_stage
\* is one of the five stage tokens.
C4_StageIsAToken ==
    \A i \in DOMAIN cases :
        cases[i].workflow_stage \in
            { "document_processing", "customer_verification", "account_management",
              "payment_processing", "completed" }

\* the store holds a case created through the form and a case that Close Case
\* completed
C4_Witness ==
    /\ Len(cases) > Len(SeedCases)
    /\ \E i \in DOMAIN cases : trail[i].closed
    /\ event.op = "close"

\* C5: Close Case on a case in any stage but completed sets status to
\* 'Completed' and workflow_stage to 'completed' in the one update it makes,
\* whatever the stage it started from.
C5_CloseSetsStatusAndStage ==
    [][\A i \in DOMAIN cases :
          CloseCase(i) =>
             /\ cases[i].workflow_stage # "completed"
             /\ cases'[i].status = "Completed"
             /\ cases'[i].workflow_stage = "completed"]_vars

\* Close Case has run on a case that was still in document_processing
C5_Witness ==
    /\ event.op = "close"
    /\ event.from = "document_processing"
    /\ Target.status = "Completed"
    /\ Target.workflow_stage = "completed"

\* C6: a step that changes a case's workflow_stage (an advance that finds a
\* successor, a close) leaves that case's last_updated at the date of the
\* clock the handler ran at.
C6_TransitionStampsLastUpdated ==
    [][\A i \in DOMAIN cases :
          cases'[i].workflow_stage # cases[i].workflow_stage
             => cases'[i].last_updated = strftime_date(clock)]_vars

\* an advance moved a case on a later day than the one the store was built on,
\* and the case carries that day
C6_Witness ==
    /\ event.op = "advance"
    /\ event.count = 1
    /\ Target.last_updated > strftime_date(ClockStart)
    /\ Target.last_updated = strftime_date(clock - 1)


----------------------------------------------------------------------------
(* The matcher under test: stores and queries *)

\* rows a customers.csv may hold besides the seed rows; every field is text
\* that read_csv keeps as a string
CustomerPool ==
    { [ customer_id |-> "P-1", name |-> <<"a", "n", "n", " ", "l", "e", "e">>, email |-> <<"a", "@", "m">>,
        phone |-> <<"p", "1">>, account_number |-> <<"k", "1">>, address |-> <<"x", " ", "s", "t">> ],
      [ customer_id |-> "P-2", name |-> <<"a", "n", "n", " ", "r", "a", "y">>, email |-> <<"b", "@", "m">>,
        phone |-> <<"p", "2">>, account_number |-> <<"k", "2">>, address |-> <<"y", " ", "s", "t">> ],
      [ customer_id |-> "P-3", name |-> <<"b", "o", "b", " ", "l", "e", "e">>, email |-> <<"c", "@", "m">>,
        phone |-> <<"p", "3">>, account_number |-> <<"k", "3">>, address |-> <<"x", " ", "s", "t">> ],
      [ customer_id |-> "P-4", name |-> <<"A", "n", "n", " ", "L", "e", "e">>, email |-> <<"d", "@", "m">>,
        phone |-> <<"p", "4">>, account_number |-> <<"k", "4">>, address |-> <<"z", " ", "s", "t">> ],
      [ customer_id |-> "P-5", name |-> <<"e", "v", "e">>, email |-> <<"e", "@", "m">>,
        phone |-> <<"p", "5">>, account_number |-> <<"k", "5">>, address |-> <<"w", " ", "s", "t">> ],
      [ customer_id |-> "P-6", name |-> <<"l", "e", "e">>, email |-> <<"f", "@", "m">>,
        phone |-> <<"p", "6">>, account_number |-> <<"k", "6">>, address |-> <<"v", " ", "s", "t">> ] }

\* lists of n distinct rows of the pool
PoolLists(n) ==
    { st \in [1..n -> CustomerPool] : \A i, j \in 1..n : i # j => st[i] # st[j] }

\* the contents of customers.csv: the seed rows, every list of at most
\* MaxFewRows distinct rows of the pool, and the whole pool in every order
Stores ==
    {SeedCustomers}
      \cup UNION { PoolLists(n) : n \in 0..MaxFewRows }
      \cup PoolLists(Cardinality(CustomerPool))

\* the queries typed into the search form
QueryNames == { <<>>, <<" ", "A", "n", "n", " ", "L", "e", "e">>, <<"a", "n", "n">>, <<"l", "e", "e", " ", "b", "o", "b">> }
QueryAccounts == { <<>>, <<"k", "1">>, <<"k">>, <<"k", "2">> }
QueryRest == { [address |-> <<>>, phone |-> <<>>, email |-> <<>>],
               [address |-> <<"x", " ", "s", "t">>, phone |-> <<"p", "1">>, email |-> <<"a", "@", "m">>] }

\* the form filled with the name 'John Doe' and account 'ACC-2024-001234'
JohnDoeQuery ==
    [ name |-> <<"J", "o", "h", "n", " ", "D", "o", "e">>,
      account_number |-> <<"A", "C", "C", "-", "2", "0", "2", "4", "-", "0", "0", "1", "2", "3", "4">>,
      address |-> <<>>, phone |-> <<>>, email |-> <<>> ]

Queries ==
    { [name |-> n, account_number |-> a, address |-> r.address,
       phone |-> r.phone, email |-> r.email] :
        n \in QueryNames, a \in QueryAccounts, r \in QueryRest }
      \cup {JohnDoeQuery}

InitMatch ==
    /\ trail = [i \in DOMAIN SeedCases |-> NewTrail(SeedCases[i].workflow_stage)]
    /\ cases = SeedCases
    /\ clock = ClockStart
    /\ show_new_case_form = FALSE
    /\ selected_case = None
    /\ event = Event("start", {}, None, 0, FALSE)
    /\ customers \in Stores
    /\ search = NoSearch
    /\ probe = NoProbe
    /\ InitOther

\* form submit "Search Customer"
VerifyCustomer(q) ==
    /\ ~search.called
    /\ search' = IF verify_customer_raises(customers, q)
                  THEN [query |-> q, best_matches |-> <<>>,
                        called |-> TRUE, raised |-> TRUE]
                  ELSE [query |-> q,
                        best_matches |-> verify_customer_advanced(customers, q),
                        called |-> TRUE, raised |-> FALSE]
    /\ UNCHANGED <<customers, probe>>
    /\ UNCHANGED caseVars
    /\ UNCHANGED otherVars

NextMatch == ~search.called /\ \E q \in Queries : VerifyCustomer(q)

SpecMatch == InitMatch /\ [][NextMatch]_vars

----------------------------------------------------------------------------
(* The matcher on stores with empty fields *)

\* the columns read with customer.get(column, ''), which may be absent
OptionalColumns == {"address", "phone", "email"}

\* the rows of a file without the columns A: customer.get gives '' for them
WithoutColumns(st, A) ==
    [i \in DOMAIN st |->
        [f \in DOMAIN st[i] |-> IF f \in A THEN <<>> ELSE st[i][f]]]

\* the rows of a file in which the cell f of row i is blank
WithBlank(st, i, f) == [st EXCEPT ![i][f] = nan]

\* the rows the lists are made of
BaseRows == { r \in CustomerPool : r.customer_id \in {"P-1", "P-2"} }

BaseLists ==
    UNION { { st \in [1..n -> BaseRows] : \A i, j \in 1..n : i # j => st[i] # st[j] }
            : n \in 1..MaxFewRows }

\* the contents of customers.csv with some optional columns absent and at
\* most one blank cell
EmptyStores ==
    UNION { { WithoutColumns(st, A) : A \in SUBSET OptionalColumns }
              \cup UNION { { WithBlank(WithoutColumns(st, A), i, f) :
                               i \in DOMAIN st, f \in DOMAIN FieldWeight \ A }
                           : A \in SUBSET OptionalColumns }
            : st \in BaseLists }

InitEmpty ==
    /\ trail = [i \in DOMAIN SeedCases |-> NewTrail(SeedCases[i].workflow_stage)]
    /\ cases = SeedCases
    /\ clock = ClockStart
    /\ show_new_case_form = FALSE
    /\ selected_case = None
    /\ event = Event("start", {}, None, 0, FALSE)
    /\ customers \in EmptyStores
    /\ search = NoSearch
    /\ probe = NoProbe
    /\ InitOther

SpecEmpty == InitEmpty /\ [][NextMatch]_vars

----------------------------------------------------------------------------
(* fuzzy_match_score under test: its arguments *)

ProbeAlphabet == {"a", "b", "A", " "}

\* every string of at most MaxLen characters of the alphabet
ShortStrings == UNION { [1..n -> ProbeAlphabet] : n \in 0..MaxLen }

\* a seed customer's name as stored, lower-cased, and padded with blanks
NameVariants ==
    UNION { { SeedCustomers[i].name, lower(SeedCustomers[i].name),
              <<" ">> \o SeedCustomers[i].name \o <<" ">> }
            : i \in DOMAIN SeedCustomers }

ProbeStrings == ShortStrings \cup NameVariants
ProbeWeights == {FullWeight, FieldWeight.name}

\* one call fuzzy_match_score(search_term, target, field_weight)
Score(search_term, target, field_weight) ==
    /\ ~probe.called
    /\ probe' = [search_term |-> search_term, target |-> target,
                 field_weight |-> field_weight,
                 score |-> fuzzy_match_score(search_term, target, field_weight),
                 called |-> TRUE]
    /\ UNCHANGED <<customers, search>>
    /\ UNCHANGED caseVars
    /\ UNCHANGED otherVars

NextScore ==
    /\ ~probe.called
    /\ \E search_term \in ProbeStrings, target \in ProbeStrings,
       field_weight \in ProbeWeights :
        Score(search_term, target, field_weight)

SpecScore == Init /\ [][NextScore]_vars


----------------------------------------------------------------------------
(* Account management: calculate_payment_capability *)

\* the step of the "Required Payment Amount" input, in euro
AmountStep == 50

\* the amounts of the model: the multiples of the step up to MaxAmount steps
Amounts == { k * AmountStep : k \in 0..MaxAmount }

\* available_balance left at the current balance
calculate_payment_capability_no_overdraft(balance, overdraft_limit, required_amount) ==
    LET available_balance == balance
    IN  [ payment_possible |-> available_balance >= required_amount,
          current_balance |-> balance,
          overdraft_limit |-> overdraft_limit,
          available_balance |-> available_balance,
          required_amount |-> required_amount,
          remaining_after_payment |-> available_balance - required_amount,
          uses_overdraft |-> required_amount > balance,
          overdraft_amount |-> Max({0, required_amount - balance}) ]

\* uses_overdraft reported only for a payment that is possible, and
\* overdraft_amount without the max
calculate_payment_capability_if_possible(balance, overdraft_limit, required_amount) ==
    LET available_balance == balance + overdraft_limit
    IN  [ payment_possible |-> available_balance >= required_amount,
          current_balance |-> balance,
          overdraft_limit |-> overdraft_limit,
          available_balance |-> available_balance,
          required_amount |-> required_amount,
          remaining_after_payment |-> available_balance - required_amount,
          uses_overdraft |-> required_amount > balance
                               /\ available_balance >= required_amount,
          overdraft_amount |-> required_amount - balance ]

\* calculate_payment_capability(balance, overdraft_limit, required_amount)
calculate_payment_capability(balance, overdraft_limit, required_amount) ==
    LET available_balance == balance + overdraft_limit
    IN  [ payment_possible |-> available_balance >= required_amount,
          current_balance |-> balance,
          overdraft_limit |-> overdraft_limit,
          available_balance |-> available_balance,
          required_amount |-> required_amount,
          remaining_after_payment |-> available_balance - required_amount,
          uses_overdraft |-> required_amount > balance,
          overdraft_amount |-> Max({0, required_amount - balance}) ]

\* the "Payment Capability Check" of the page: one call
CheckPayment(balance, overdraft_limit, required_amount) ==
    /\ ~payment_info.called
    /\ payment_info' =
          [called |-> TRUE] @@
          calculate_payment_capability(balance, overdraft_limit, required_amount)
    /\ UNCHANGED <<extraction, lookup, disk>>
    /\ UNCHANGED pageVars
    /\ UNCHANGED caseVars
    /\ UNCHANGED matchVars

NextPay ==
    /\ ~payment_info.called
    /\ \E balance \in Amounts, overdraft_limit \in Amounts,
          required_amount \in Amounts :
          CheckPayment(balance, overdraft_limit, required_amount)

SpecPay == Init /\ [][NextPay]_vars

\* validate_account_balance that leaves the overdraft limit at its default
validate_account_balance_no_overdraft(required_amount, account_balance, overdraft_limit) ==
    LET available_balance == account_balance
    IN  [ sufficient_funds |-> available_balance >= required_amount,
          account_balance |-> account_balance,
          overdraft_limit |-> 0,
          available_balance |-> available_balance,
          required_amount |-> required_amount,
          shortfall |-> Max({0, required_amount - available_balance}),
          recommendation |-> IF available_balance >= required_amount
                             THEN "proceed_with_payment" ELSE "insufficient_funds" ]

\* BankingAIProcessor.validate_account_balance
validate_account_balance(required_amount, account_balance, overdraft_limit) ==
    LET available_balance == account_balance + overdraft_limit
    IN  [ sufficient_funds |-> available_balance >= required_amount,
          account_balance |-> account_balance,
          overdraft_limit |-> overdraft_limit,
          available_balance |-> available_balance,
          required_amount |-> required_amount,
          shortfall |-> Max({0, required_amount - available_balance}),
          recommendation |-> IF available_balance >= required_amount
                             THEN "proceed_with_payment" ELSE "insufficient_funds" ]

\* both affordability checks called on the same account and amount
CheckBoth(balance, overdraft_limit, required_amount) ==
    /\ payment_info' =
          [called |-> TRUE] @@
          calculate_payment_capability(balance, overdraft_limit, required_amount)
    /\ validation' =
          [called |-> TRUE] @@
          validate_account_balance(required_amount, balance, overdraft_limit)
    /\ UNCHANGED <<extraction, lookup, disk, payment_page, sessions, history>>
    /\ UNCHANGED caseVars
    /\ UNCHANGED matchVars

NextFunds ==
    /\ ~validation.called
    /\ \E balance \in Amounts, overdraft_limit \in Amounts,
          required_amount \in Amounts :
          CheckBoth(balance, overdraft_limit, required_amount)

SpecFunds == Init /\ [][NextFunds]_vars

----------------------------------------------------------------------------
(* Document extraction: classify_document and process_sample_document *)

\* a document text is the sequence of its phrases; extract_text_from_pdf
\* returns the text, or a message that begins with "Error" when it failed
DocumentTexts ==
    { <<"Error extracting text from PDF: ", "[Errno 2] No such file">>,
      <<"SUPERIOR COURT", "WRIT OF EXECUTION", "Case No. CV-1">>,
      <<"LEVY NOTICE", "Case No. CV-2">>,
      <<"Account Freeze", "Case No. CV-3">>,
      <<"Dear customer">> }

\* str.lower() on the phrases of the model
LowerPhrase(ph) ==
    CASE ph = "WRIT OF EXECUTION" -> "writ of execution"
      [] ph = "LEVY NOTICE" -> "levy notice"
      [] ph = "Account Freeze" -> "account freeze"
      [] ph = "SUPERIOR COURT" -> "superior court"
      [] ph = "Dear customer" -> "dear customer"
      [] OTHER -> ph

\* document_text.startswith("Error")
StartsWithError(document_text) ==
    /\ document_text # <<>>
    /\ document_text[1] = "Error extracting text from PDF: "

\* phrase in text.lower()
InLower(phrase, text) == \E k \in DOMAIN text : LowerPhrase(text[k]) = phrase

\* determine_document_type(text)
determine_document_type(text) ==
    IF InLower("writ of execution", text) \/ InLower("earnings withholding", text)
    THEN "garnishment_order"
    ELSE IF InLower("notice to financial institution", text) \/ InLower("levy notice", text)
    THEN "court_notice"
    ELSE IF InLower("account freeze", text) \/ InLower("freeze order", text)
    THEN "account_freeze_order"
    ELSE "unknown"

\* the prompt files of the prompts directory: absent, a template whose only
\* placeholder is {document_text}, or a template with other braces in it, on
\* which str.format raises KeyError
PromptFiles == {"absent", "plain", "braces"}

\* load_extraction_prompt(document_type): the template that is formatted
load_extraction_prompt(document_type, prompt_file) ==
    IF document_type \notin {"garnishment_order", "court_notice", "account_freeze_order"}
    THEN "generic"
    ELSE IF prompt_file = "absent" THEN "generic" ELSE prompt_file

\* what the chat completion does: it raises, or it replies with a message
\* whose content is None, text that is not JSON, a JSON object, or JSON that
\* is not an object
ReplyObjects ==
    { [document_type |-> "garnishment_order", customer_name |-> "John Michael Doe",
       confidence_score |-> 95],
      [document_type |-> "court_notice", case_number |-> "CV-2"],
      [document_type |-> "legal_notice", status |-> "error", confidence_score |-> 80],
      [document_type |-> "unknown", error |-> "illegible", confidence_score |-> 10] }

Replies ==
    { [kind |-> "exception", message |-> "Connection error."],
      [kind |-> "none"],
      [kind |-> "text", content |-> "Here is the information you asked for"],
      [kind |-> "array", content |-> <<>>] }
      \cup { [kind |-> "object", content |-> o] : o \in ReplyObjects }

\* json.loads(content): the exception it raises, or "" and the value
json_loads(reply) ==
    CASE reply.kind = "none" -> [raises |-> "TypeError"]
      [] reply.kind = "text" -> [raises |-> "JSONDecodeError"]
      [] OTHER -> [raises |-> "", value |-> reply.content]

\* the dict classify_document returns from its except clause
classify_fallback(message) ==
    [ document_type |-> "unknown", customer_name |-> "", account_number |-> "",
      case_number |-> "", creditor_name |-> "", amount |-> 0, date_filed |-> "",
      bank_name |-> "", confidence_score |-> 0,
      summary |-> <<"Error processing document: ", message>> ]

\* classify_document with an except clause for API errors only
classify_document_parse_escapes(text, reply) ==
    IF reply.kind = "exception" THEN Returned(classify_fallback(reply.message))
    ELSE LET parsed == json_loads(reply)
         IN  IF parsed.raises # "" THEN Raised(parsed.raises)
             ELSE Returned(parsed.value)

\* BankingAIProcessor.classify_document(text)
classify_document(text, reply) ==
    IF reply.kind = "exception" THEN Returned(classify_fallback(reply.message))
    ELSE LET parsed == json_loads(reply)
         IN  IF parsed.raises # "" THEN Returned(classify_fallback(parsed.raises))
             ELSE Returned(parsed.value)

\* the dict of the outer except clause and of a failed text extraction
error_result(filename, message) ==
    [ filename |-> filename, status |-> "error", error |-> message,
      confidence_score |-> 0 ]

\* the dict of the except json.JSONDecodeError clause
partial_result(filename, reply, message) ==
    [ filename |-> filename, status |-> "partial_success",
      raw_response |-> reply.content,
      error |-> <<"JSON parsing error: ", message>>,
      confidence_score |-> 50 ]

\* the keys result.update writes over a parsed reply
processed_updates(filename, document_text) ==
    [ filename |-> filename, status |-> "processed", raw_text |-> document_text,
      processing_timestamp |-> "2024-01-27T10:30:00" ]

\* process_sample_document with the unparseable reply reported as an error
process_sample_document_parse_is_error(document_text, filename, prompt_file, reply) ==
    IF StartsWithError(document_text)
    THEN Returned(error_result(filename, document_text))
    ELSE LET doc_type == determine_document_type(document_text)
             prompt_template == load_extraction_prompt(doc_type, prompt_file)
         IN  IF prompt_template = "braces"
             THEN Returned(error_result(filename, "KeyError"))
             ELSE IF reply.kind = "exception"
             THEN Returned(error_result(filename, reply.message))
             ELSE LET parsed == json_loads(reply)
                  IN  IF parsed.raises # ""
                      THEN Returned(error_result(filename, parsed.raises))
                      ELSE IF reply.kind # "object"
                      THEN Returned(error_result(filename, "AttributeError"))
                      ELSE Returned(DictUpdate(parsed.value,
                                        processed_updates(filename, document_text)))

\* process_sample_document without its outer except clause
process_sample_document_no_outer_except(document_text, filename, prompt_file, reply) ==
    IF StartsWithError(document_text)
    THEN Returned(error_result(filename, document_text))
    ELSE LET doc_type == determine_document_type(document_text)
             prompt_template == load_extraction_prompt(doc_type, prompt_file)
         IN  IF prompt_template = "braces" THEN Raised("KeyError")
             ELSE IF reply.kind = "exception" THEN Raised(reply.message)
             ELSE LET parsed == json_loads(reply)
                  IN  IF parsed.raises = "JSONDecodeError"
                      THEN Returned(partial_result(filename, reply, parsed.raises))
                      ELSE IF parsed.raises # "" THEN Raised(parsed.raises)
                      ELSE IF reply.kind # "object" THEN Raised("AttributeError")
                      ELSE Returned(DictUpdate(parsed.value,
                                        processed_updates(filename, document_text)))

\* EnhancedDocumentProcessor.process_sample_document(pdf_path, filename)
process_sample_document(document_text, filename, prompt_file, reply) ==
    IF StartsWithError(document_text)
    THEN Returned(error_result(filename, document_text))
    ELSE LET doc_type == determine_document_type(document_text)
             prompt_template == load_extraction_prompt(doc_type, prompt_file)
         IN  IF prompt_template = "braces"
             THEN Returned(error_result(filename, "KeyError"))
             ELSE IF reply.kind = "exception"
             THEN Returned(error_result(filename, reply.message))
             ELSE LET parsed == json_loads(reply)
                  IN  IF parsed.raises = "JSONDecodeError"
                      THEN Returned(partial_result(filename, reply, parsed.raises))
                      ELSE IF parsed.raises # ""
                      THEN Returned(error_result(filename, parsed.raises))
                      ELSE IF reply.kind # "object"
                      THEN Returned(error_result(filename, "AttributeError"))
                      ELSE Returned(DictUpdate(parsed.value,
                                        processed_updates(filename, document_text)))

\* the chat completion was called: the text was extracted and the prompt
\* formatted
ApiReached(fn, document_text, prompt_file) ==
    \/ fn = "classify_document"
    \/ /\ ~StartsWithError(document_text)
       /\ load_extraction_prompt(determine_document_type(document_text),
                                 prompt_file) # "braces"

\* process_uploaded_document: one call of classify_document
ClassifyDocument(text, reply) ==
    /\ ~extraction.called
    /\ extraction' = [ called |-> TRUE, fn |-> "classify_document",
                       document_text |-> text, prompt |-> "none", reply |-> reply,
                       outcome |-> classify_document(text, reply) ]
    /\ UNCHANGED <<payment_info, lookup, disk>>
    /\ UNCHANGED pageVars
    /\ UNCHANGED caseVars
    /\ UNCHANGED matchVars

\* the "Process" button of a sample document: one call of
\* process_sample_document
ProcessSampleDocument(document_text, prompt_file, reply) ==
    /\ ~extraction.called
    /\ extraction' = [ called |-> TRUE, fn |-> "process_sample_document",
                       document_text |-> document_text, prompt |-> prompt_file,
                       reply |-> reply,
                       outcome |-> process_sample_document(document_text,
                                       "sample.pdf", prompt_file, reply) ]
    /\ UNCHANGED <<payment_info, lookup, disk>>
    /\ UNCHANGED pageVars
    /\ UNCHANGED caseVars
    /\ UNCHANGED matchVars

NextExtract ==
    /\ ~extraction.called
    /\ \/ \E text \in DocumentTexts, reply \in Replies :
             ClassifyDocument(text, reply)
       \/ \E document_text \in DocumentTexts, prompt_file \in PromptFiles,
             reply \in Replies :
             ProcessSampleDocument(document_text, prompt_file, reply)

SpecExtract == Init /\ [][NextExtract]_vars

----------------------------------------------------------------------------
(* Lookups by identifier *)

\* the rows of customers[customers[column] == key]
RowsWhere(cs, column, key) == { i \in DOMAIN cs : cs[i][column] = key }

\* get_customer_by_account without the test of customer.empty: iloc[0] of an
\* empty frame raises IndexError
get_customer_by_account_unchecked(cs, account_number) ==
    LET customer == RowsWhere(cs, "account_number", account_number)
    IN  IF customer # {} THEN Returned(<<cs[Min(customer)]>>)
        ELSE Raised("IndexError")

\* BankingDatabase.get_customer_by_id(customer_id)
get_customer_by_id(cs, customer_id) ==
    LET customer == RowsWhere(cs, "customer_id", customer_id)
    IN  Returned(IF customer # {} THEN <<cs[Min(customer)]>> ELSE <<>>)

\* BankingDatabase.get_customer_by_account(account_number)
get_customer_by_account(cs, account_number) ==
    LET customer == RowsWhere(cs, "account_number", account_number)
    IN  Returned(IF customer # {} THEN <<cs[Min(customer)]>> ELSE <<>>)

\* the result of get_case_by_id as an Optional
case_by_id(cs, case_id) ==
    Returned(IF Found(cs, case_id) THEN <<get_case_by_id(cs, case_id)>> ELSE <<>>)

\* the identifiers looked up: some stored, some not
LookupCustomerIds == {"CUST-001", "P-1", "P-6", "CUST-999", ""}
LookupAccounts ==
    { SeedCustomers[1].account_number, <<"k", "1">>, <<"k">>, <<"k", "9">>, <<>> }
LookupCaseIds == {"CASE-2024-001", "CASE-2024-004", "CASE-2024-999", ""}

LookupCustomerById(customer_id) ==
    /\ ~lookup.called
    /\ lookup' = [ called |-> TRUE, fn |-> "get_customer_by_id",
                   key |-> customer_id, account_number |-> <<>>,
                   outcome |-> get_customer_by_id(customers, customer_id) ]
    /\ UNCHANGED <<payment_info, extraction, disk>>
    /\ UNCHANGED pageVars
    /\ UNCHANGED caseVars
    /\ UNCHANGED matchVars

LookupCustomerByAccount(account_number) ==
    /\ ~lookup.called
    /\ lookup' = [ called |-> TRUE, fn |-> "get_customer_by_account",
                   key |-> "", account_number |-> account_number,
                   outcome |-> get_customer_by_account(customers, account_number) ]
    /\ UNCHANGED <<payment_info, extraction, disk>>
    /\ UNCHANGED pageVars
    /\ UNCHANGED caseVars
    /\ UNCHANGED matchVars

LookupCaseById(case_id) ==
    /\ ~lookup.called
    /\ lookup' = [ called |-> TRUE, fn |-> "get_case_by_id",
                   key |-> case_id, account_number |-> <<>>,
                   outcome |-> case_by_id(cases, case_id) ]
    /\ UNCHANGED <<payment_info, extraction, disk>>
    /\ UNCHANGED pageVars
    /\ UNCHANGED caseVars
    /\ UNCHANGED matchVars

NextLookup ==
    /\ ~lookup.called
    /\ \/ \E customer_id \in LookupCustomerIds : LookupCustomerById(customer_id)
       \/ \E account_number \in LookupAccounts :
             LookupCustomerByAccount(account_number)
       \/ \E case_id \in LookupCaseIds : LookupCaseById(case_id)

SpecLookup == InitMatch /\ [][NextLookup]_vars

----------------------------------------------------------------------------
(* Construction of the store: BankingDatabase.__init__ *)

\* the seed of a data file
SeedOf(f) ==
    CASE f = "customers_file" -> SeedCustomers
      [] f = "cases_file" -> SeedCases
      [] f = "transactions_file" -> SeedTransactions
      [] f = "documents_file" -> SeedDocuments

\* what a data file that exists may hold: the seed, a part of it, no row
FileContents(f) == { SeedOf(f), SubSeq(SeedOf(f), 1, 1), <<>> }

\* the data directories the constructor may find: no directory, or a
\* directory with any of the four files present
FoundDisks ==
    { [ constructed |-> FALSE, raised |-> FALSE, dir_exists |-> FALSE,
        was_missing |-> {},
        exists |-> [f \in DataFiles |-> FALSE],
        customers_file |-> <<>>, cases_file |-> <<>>,
        transactions_file |-> <<>>, documents_file |-> <<>> ] }
    \cup
    { [ constructed |-> FALSE, raised |-> FALSE, dir_exists |-> TRUE,
        was_missing |-> {},
        exists |-> e,
        customers_file |-> IF e.customers_file THEN c.customers_file ELSE <<>>,
        cases_file |-> IF e.cases_file THEN c.cases_file ELSE <<>>,
        transactions_file |-> IF e.transactions_file THEN c.transactions_file ELSE <<>>,
        documents_file |-> IF e.documents_file THEN c.documents_file ELSE <<>> ]
      : e \in [DataFiles -> BOOLEAN],
        c \in [ customers_file : FileContents("customers_file"),
                cases_file : FileContents("cases_file"),
                transactions_file : FileContents("transactions_file"),
                documents_file : FileContents("documents_file") ] }

\* the seed written over a file whether or not it exists
initialize_data_file_always(exists, content, seed) == seed

\* one "if not os.path.exists(file): write the seed" of _initialize_data_files
initialize_data_file(exists, content, seed) ==
    IF ~exists THEN seed ELSE content

\* BankingDatabase.__init__: os.makedirs(data_dir, exist_ok=True), then
\* _initialize_data_files
BankingDatabase_init(d) ==
    [ constructed |-> TRUE, raised |-> FALSE, dir_exists |-> TRUE,
      was_missing |-> { f \in DataFiles : ~d.exists[f] },
      exists |-> [f \in DataFiles |-> TRUE],
      customers_file |-> initialize_data_file(d.exists.customers_file,
                             d.customers_file, SeedCustomers),
      cases_file |-> initialize_data_file(d.exists.cases_file,
                             d.cases_file, SeedCases),
      transactions_file |-> initialize_data_file(d.exists.transactions_file,
                             d.transactions_file, SeedTransactions),
      documents_file |-> initialize_data_file(d.exists.documents_file,
                             d.documents_file, SeedDocuments) ]

\* get_database() on first access: the store is constructed
Construct ==
    /\ ~disk.constructed
    /\ disk' = BankingDatabase_init(disk)
    /\ UNCHANGED <<payment_info, extraction, lookup>>
    /\ UNCHANGED pageVars
    /\ UNCHANGED caseVars
    /\ UNCHANGED matchVars

InitDisk ==
    /\ trail = [i \in DOMAIN SeedCases |-> NewTrail(SeedCases[i].workflow_stage)]
    /\ cases = SeedCases
    /\ clock = ClockStart
    /\ show_new_case_form = FALSE
    /\ selected_case = None
    /\ event = Event("start", {}, None, 0, FALSE)
    /\ customers = SeedCustomers
    /\ search = NoSearch
    /\ probe = NoProbe
    /\ payment_info = NoPayment
    /\ extraction = NoExtraction
    /\ lookup = NoLookup
    /\ disk \in FoundDisks
    /\ InitPages

NextDisk == Construct

SpecDisk == InitDisk /\ [][NextDisk]_vars

----------------------------------------------------------------------------
(* Matcher claims *)

\* a number of points as a score
Points(n) == n * ScoreUnit

\* the stored rows whose total for the last query is above 20 points
RowsAbove == { i \in DOMAIN customers :
                 total_score(customers[i], search.query) > Points(20) }

\* C7: whatever the query and the customer store, verify_customer_advanced
\* returns at most 5 candidates, in an order in which total_score never rises.
C7_AtMostFiveSorted ==
    search.called =>
        /\ Len(search.best_matches) <= 5
        /\ \A i, j \in DOMAIN search.best_matches :
              i < j => search.best_matches[i].total_score
                         >= search.best_matches[j].total_score

\* six stored rows are above the threshold, with different totals, and the
\* first stored row is not the best one
C7_Witness ==
    /\ search.called
    /\ Cardinality(RowsAbove) > 5
    /\ Len(search.best_matches) = 5
    /\ search.best_matches[1].total_score > search.best_matches[5].total_score
    /\ total_score(customers[1], search.query) < search.best_matches[1].total_score

\* the string lower-cased, without the blanks at its two ends
ClaimNormal(s) ==
    LET inked == {k \in DOMAIN s : s[k] # " "}
    IN  IF inked = {} THEN <<>>
        ELSE [k \in 1..(Max(inked) - Min(inked) + 1) |->
                LowerChar(s[Min(inked) + k - 1])]

\* a occurs in b as a run of consecutive characters
ClaimSubstring(a, b) ==
    \E i \in 1..(Len(b) + 1), j \in 0..Len(b) : SubSeq(b, i, j) = a

\* the tokens of s: the maximal runs <<first, last>> without a blank
ClaimTokens(s) ==
    { r \in (DOMAIN s) \X (DOMAIN s) :
        /\ r[1] <= r[2]
        /\ \A k \in r[1]..r[2] : s[k] # " "
        /\ (r[1] = 1 \/ s[r[1] - 1] = " ")
        /\ (r[2] = Len(s) \/ s[r[2] + 1] = " ") }

\* the query tokens that lie in, or hold, some target token
ClaimMatched(q, t) ==
    { r \in ClaimTokens(q) :
        \E u \in ClaimTokens(t) :
            \/ ClaimSubstring(SubSeq(q, r[1], r[2]), SubSeq(t, u[1], u[2]))
            \/ ClaimSubstring(SubSeq(t, u[1], u[2]), SubSeq(q, r[1], r[2])) }

C9_OnlyAboveTwenty ==
    search.called =>
        /\ \A k \in DOMAIN search.best_matches :
              /\ search.best_matches[k].total_score > Points(20)
              /\ search.best_matches[k].total_score
                   = total_score(search.best_matches[k].customer, search.query)
        /\ \A i \in DOMAIN customers :
              total_score(customers[i], search.query) <= Points(20)
                 => \A k \in DOMAIN search.best_matches :
                       search.best_matches[k].customer # customers[i]

\* a stored customer totals exactly 20 points and is left out, while another
\* customer is returned
C9_Witness ==
    /\ search.called
    /\ search.best_matches # <<>>
    /\ \E i \in DOMAIN customers :
          /\ total_score(customers[i], search.query) = Points(20)
          /\ \A k \in DOMAIN search.best_matches :
                search.best_matches[k].customer # customers[i]

\* the search of the seed store for name 'John Doe', account 'ACC-2024-001234'
JohnDoeSearched ==
    /\ search.called
    /\ customers = SeedCustomers
    /\ search.query = JohnDoeQuery

\* John Michael Doe heads the result with name 24 + account 40 = 64 points
JohnDoeFirst ==
    /\ search.best_matches # <<>>
    /\ search.best_matches[1].customer = SeedCustomers[1]
    /\ search.best_matches[1].match_details.name = Points(24)
    /\ search.best_matches[1].match_details.account_number = Points(40)
    /\ search.best_matches[1].total_score = Points(64)

\* C10 as stated: in that search John Michael Doe scores 24 + 40 = 64, is
\* retained and ranked first, and every other customer scores 0.
C10_OthersScoreZero ==
    JohnDoeSearched =>
        /\ JohnDoeFirst
        /\ \A i \in DOMAIN customers :
              customers[i] # SeedCustomers[1]
                 => total_score(customers[i], search.query) = 0

\* C10: in that search John Michael Doe scores 24 + 40 = 64 and is the one
\* candidate returned; Robert James Johnson scores 12 ('john' lies in
\* 'johnson'), under the threshold, and every other customer scores 0.
C10_JohnDoeAlone ==
    JohnDoeSearched =>
        /\ JohnDoeFirst
        /\ Len(search.best_matches) = 1
        /\ \A i \in DOMAIN customers :
              total_score(customers[i], search.query) =
                 IF customers[i] = SeedCustomers[1] THEN Points(64)
                 ELSE IF customers[i].customer_id = "CUST-003" THEN Points(12)
                 ELSE 0

\* that search has been made and returned John Michael Doe
C10_Witness ==
    /\ JohnDoeSearched
    /\ Len(search.best_matches) = 1
    /\ search.best_matches[1].customer.customer_id = "CUST-001"

\* the query field f and the customer's field f are equal once lower-cased
\* and trimmed
ExactOn(customer, q, f) ==
    /\ q[f] # <<>>
    /\ ClaimNormal(q[f]) = ClaimNormal(customer[f])

\* the query supplies the name and nothing else
NameOnly(q) ==
    /\ q.name # <<>>
    /\ \A f \in DOMAIN FieldWeight \ {"name"} : q[f] = <<>>

\* C11: for every query and stored customer the total score lies in [0, 100];
\* it is 100 only when all five fields match exactly; and a query that
\* supplies only the name totals at most 40.
C11_TotalWithinHundred ==
    search.called =>
        \A i \in DOMAIN customers :
            LET total == total_score(customers[i], search.query)
            IN  /\ total >= 0
                /\ total <= Points(100)
                /\ total = Points(100) =>
                      \A f \in DOMAIN FieldWeight :
                          ExactOn(customers[i], search.query, f)
                /\ NameOnly(search.query) => total <= Points(40)

\* one stored customer totals 100 for a query of five fields, another totals
\* less with some field matching exactly
C11_Witness ==
    /\ search.called
    /\ \E i, j \in DOMAIN customers :
          /\ total_score(customers[i], search.query) = Points(100)
          /\ total_score(customers[j], search.query) < Points(100)
          /\ total_score(customers[j], search.query) > 0

\* the two strings of the last call are disjoint: lower-cased and trimmed they
\* are non-empty and different, neither holds the other, and no token of one
\* is a substring of a token of the other
ProbeDisjoint ==
    LET q == ClaimNormal(probe.search_term)
        t == ClaimNormal(probe.target)
    IN  /\ probe.called
        /\ q # <<>> /\ t # <<>>
        /\ q # t
        /\ ~ClaimSubstring(q, t) /\ ~ClaimSubstring(t, q)
        /\ ClaimMatched(q, t) = {}

\* C12: for every pair of disjoint field strings fuzzy_match_score returns 0,
\* whatever the weight.
C12_DisjointScoresZero ==
    ProbeDisjoint => probe.score = 0

\* a disjoint pair in which the query has two tokens has been scored
C12_Witness ==
    /\ ProbeDisjoint
    /\ Cardinality(ClaimTokens(ClaimNormal(probe.search_term))) >= 2
    /\ probe.score = 0

\* a stored cell that is empty: blank in the file, or of an absent column
EmptyCell(c) == c = <<>> \/ c = nan

\* what field f adds to the total of a returned candidate
Contribution(m, f) ==
    IF f \in DOMAIN m.match_details THEN m.match_details[f] ELSE 0

\* C13 as stated: a search never raises, and in every returned candidate a
\* field that is empty in the query or empty in the store adds 0 to the total.
C13_EmptyFieldNeverRaises ==
    search.called =>
        /\ ~search.raised
        /\ \A k \in DOMAIN search.best_matches, f \in DOMAIN FieldWeight :
              (search.query[f] = <<>>
                 \/ EmptyCell(search.best_matches[k].customer[f]))
                 => Contribution(search.best_matches[k], f) = 0

\* a search met a blank cell of the store in a field the query supplies, and
\* raised
C13_Witness ==
    /\ search.called
    /\ search.raised
    /\ \E i \in DOMAIN customers, f \in DOMAIN FieldWeight :
          customers[i][f] = nan /\ search.query[f] # <<>>

\* the place of a customer in the store
StorePlace(customer) == CHOOSE i \in DOMAIN customers : customers[i] = customer

\* C14: among the candidates returned with equal total_score, the order is
\* the order in which the customers stand in the store.
C14_TiesInStoreOrder ==
    search.called =>
        \A i, j \in DOMAIN search.best_matches :
            (i < j /\ search.best_matches[i].total_score
                        = search.best_matches[j].total_score)
               => StorePlace(search.best_matches[i].customer)
                    < StorePlace(search.best_matches[j].customer)

\* two candidates tie behind a candidate with a higher total that stands
\* after both of them in the store
C14_Witness ==
    /\ search.called
    /\ Len(search.best_matches) >= 3
    /\ search.best_matches[2].total_score = search.best_matches[3].total_score
    /\ search.best_matches[1].total_score > search.best_matches[2].total_score
    /\ StorePlace(search.best_matches[1].customer)
          > StorePlace(search.best_matches[3].customer)

----------------------------------------------------------------------------
(* Account management claims *)

\* the last call was calculate_payment_capability(balance, overdraft, required)
PaymentOf(balance, overdraft_limit, required_amount) ==
    /\ payment_info.called
    /\ payment_info.current_balance = balance
    /\ payment_info.overdraft_limit = overdraft_limit
    /\ payment_info.required_amount = required_amount

\* C15: for non-negative balance, overdraft limit and required amount,
\* available_balance = balance + overdraft limit, payment_possible says that
\* available_balance >= required amount, and remaining_after_payment =
\* available_balance - required amount; (1000, 500, 1200) gives possible,
\* uses overdraft, overdraft amount 200, remaining 300, and (1000, 0, 1200)
\* gives not possible.
C15_PaymentCapability ==
    payment_info.called =>
        /\ payment_info.available_balance
              = payment_info.current_balance + payment_info.overdraft_limit
        /\ payment_info.payment_possible
              <=> (payment_info.current_balance + payment_info.overdraft_limit
                     >= payment_info.required_amount)
        /\ payment_info.remaining_after_payment
              = payment_info.current_balance + payment_info.overdraft_limit
                  - payment_info.required_amount
        /\ PaymentOf(1000, 500, 1200) =>
              /\ payment_info.payment_possible
              /\ payment_info.uses_overdraft
              /\ payment_info.overdraft_amount = 200
              /\ payment_info.remaining_after_payment = 300
        /\ PaymentOf(1000, 0, 1200) => ~payment_info.payment_possible

\* the call (1000, 500, 1200) has been made and found the payment possible
C15_Witness ==
    /\ PaymentOf(1000, 500, 1200)
    /\ payment_info.payment_possible
    /\ payment_info.remaining_after_payment = 300

\* C16: uses_overdraft says that the required amount exceeds the balance and
\* overdraft_amount is max(0, required amount - balance), whether or not the
\* payment is possible; overdraft_amount is never negative.
C16_OverdraftReported ==
    payment_info.called =>
        /\ payment_info.uses_overdraft
              <=> (payment_info.required_amount > payment_info.current_balance)
        /\ payment_info.overdraft_amount
              = (IF payment_info.required_amount > payment_info.current_balance
                 THEN payment_info.required_amount - payment_info.current_balance
                 ELSE 0)
        /\ payment_info.overdraft_amount >= 0

\* a payment that is not possible is reported as using the overdraft
C16_Witness ==
    /\ payment_info.called
    /\ ~payment_info.payment_possible
    /\ payment_info.uses_overdraft
    /\ payment_info.overdraft_amount > payment_info.overdraft_limit

----------------------------------------------------------------------------
(* Document extraction claims *)

\* the last call reached the extractor and the extractor failed: the API call
\* raised, or the reply was text that is not JSON
ExtractorFailed ==
    /\ extraction.called
    /\ ApiReached(extraction.fn, extraction.document_text, extraction.prompt)
    /\ extraction.reply.kind \in {"exception", "text"}

\* C17 as stated: every extractor failure in classify_document and
\* process_sample_document is returned as a result that carries an error
\* field and confidence_score 0, and none escapes as an exception.
C17_FailureIsErrorWithZeroConfidence ==
    ExtractorFailed =>
        /\ ~extraction.outcome.raised
        /\ "error" \in DOMAIN extraction.outcome.value
        /\ extraction.outcome.value.confidence_score = 0

\* C17: every extractor failure in classify_document and
\* process_sample_document is caught and returned as a result value.
\* classify_document returns its fallback: document_type 'unknown',
\* confidence_score 0, the message in summary and no error field.
\* process_sample_document returns status 'error' with an error field and
\* confidence_score 0 when the API call raised, and status 'partial_success'
\* with an error field and confidence_score 50 when the reply is not JSON.
C17_FailureIsCaught ==
    ExtractorFailed =>
        LET v == extraction.outcome.value
        IN  /\ ~extraction.outcome.raised
            /\ extraction.fn = "classify_document" =>
                  /\ "error" \notin DOMAIN v
                  /\ v.document_type = "unknown"
                  /\ v.confidence_score = 0
                  /\ v.summary[1] = "Error processing document: "
            /\ (extraction.fn = "process_sample_document"
                   /\ extraction.reply.kind = "exception") =>
                  /\ v.status = "error"
                  /\ "error" \in DOMAIN v
                  /\ v.confidence_score = 0
            /\ (extraction.fn = "process_sample_document"
                   /\ extraction.reply.kind = "text") =>
                  /\ v.status = "partial_success"
                  /\ "error" \in DOMAIN v
                  /\ v.confidence_score = 50

\* the API call of process_sample_document raised and the call returned an
\* error result
C17_Witness ==
    /\ ExtractorFailed
    /\ extraction.fn = "process_sample_document"
    /\ extraction.reply.kind = "exception"
    /\ ~extraction.outcome.raised
    /\ extraction.outcome.value.status = "error"

----------------------------------------------------------------------------
(* Store claims: lookups and construction *)

\* the key of the last lookup is the identifier of no stored record
UnknownKey ==
    /\ lookup.called
    /\ CASE lookup.fn = "get_customer_by_id" ->
               \A i \in DOMAIN customers : customers[i].customer_id # lookup.key
         [] lookup.fn = "get_customer_by_account" ->
               \A i \in DOMAIN customers :
                   customers[i].account_number # lookup.account_number
         [] lookup.fn = "get_case_by_id" ->
               \A i \in DOMAIN cases : cases[i].case_id # lookup.key

\* C19: get_case_by_id, get_customer_by_account and get_customer_by_id, called
\* with an identifier that is not in the store, return None, raise nothing
\* and leave the store as it was.
C19_UnknownLookupReturnsNone ==
    [][ (~lookup.called /\ UnknownKey') =>
           /\ ~lookup'.outcome.raised
           /\ lookup'.outcome.value = <<>>
           /\ cases' = cases
           /\ customers' = customers ]_vars

\* an account number that no row of a store of several rows has was looked up
C19_Witness ==
    /\ UnknownKey
    /\ lookup.fn = "get_customer_by_account"
    /\ lookup.account_number # <<>>
    /\ Len(customers) >= 2
    /\ lookup.outcome.value = <<>>

\* C20: constructing the store raises no error, writes the seed data into
\* each of the four files that is missing and leaves each file that exists as
\* it is, so that all four files exist afterwards.
C20_MissingFilesSeeded ==
    [][ (~disk.constructed /\ disk'.constructed) =>
           /\ ~disk'.raised
           /\ \A f \in DataFiles :
                 /\ disk'.exists[f]
                 /\ disk.exists[f] => disk'[f] = disk[f]
                 /\ ~disk.exists[f] => disk'[f] = SeedOf(f) ]_vars

\* the store was constructed in a directory that held the cases file with
\* one case and no customers file
C20_Witness ==
    /\ disk.constructed
    /\ "customers_file" \in disk.was_missing
    /\ "cases_file" \notin disk.was_missing
    /\ disk.customers_file = SeedCustomers
    /\ Len(disk.cases_file) = 1


----------------------------------------------------------------------------
(* The payment page; amounts are in cents *)

ProcessingFee == 250        \* processing_fee = 2.50
WireFee == 1500             \* wire_fee = 15.00
WireThreshold == 100000     \* amount > 1000

\* the amounts and the fee choice entered in the payment form
PaymentAmounts == {100000, 125000}

\* calculate_payment_breakdown(amount, fees)['total_amount']
calculate_payment_breakdown(amount, fees) ==
    LET processing_fee == IF fees THEN ProcessingFee ELSE 0
        wire_fee       == IF amount > WireThreshold /\ fees THEN WireFee ELSE 0
    IN  amount + processing_fee + wire_fee

\* the progress values of the processing steps
processing_steps == <<20, 40, 60, 80, 100>>

\* the run of the script that follows st.rerun(): the processing branch sets
\* processing_step when it is missing and, with no step left, sets the stage
\* to completed
rerun(state) ==
    IF state.payment_stage = "processing"
    THEN LET step == IF state.processing_step = NoStep THEN 0
                     ELSE state.processing_step
         IN  IF step < Len(processing_steps)
             THEN [state EXCEPT !.processing_step = step]
             ELSE [state EXCEPT !.processing_step = step,
                                !.payment_stage = "completed"]
    ELSE state

\* form submit "Setup Payment"; the form is drawn in every stage
SetupPayment(payment_amount, include_fees) ==
    /\ payment_page' =
          rerun([payment_page EXCEPT
                   !.payment_data =
                       [ set |-> TRUE, payment_amount |-> payment_amount,
                         include_fees |-> include_fees,
                         total_amount |->
                             calculate_payment_breakdown(payment_amount, include_fees) ],
                   !.payment_stage = "review",
                   !.op = "setup"])
    /\ UNCHANGED <<payment_info, extraction, lookup, disk, validation, sessions, history>>
    /\ UNCHANGED caseVars
    /\ UNCHANGED matchVars

\* button "Authorize Payment" of the review stage
AuthorizePayment ==
    /\ payment_page.payment_stage = "review"
    /\ payment_page' =
          rerun([payment_page EXCEPT !.payment_stage = "processing",
                                     !.op = "authorize", !.continues = 0])
    /\ UNCHANGED <<payment_info, extraction, lookup, disk, validation, sessions, history>>
    /\ UNCHANGED caseVars
    /\ UNCHANGED matchVars

\* button "Edit Payment" of the review stage
EditPayment ==
    /\ payment_page.payment_stage = "review"
    /\ payment_page' =
          rerun([payment_page EXCEPT !.payment_stage = "setup", !.op = "edit"])
    /\ UNCHANGED <<payment_info, extraction, lookup, disk, validation, sessions, history>>
    /\ UNCHANGED caseVars
    /\ UNCHANGED matchVars

\* button "Cancel Payment" of the review stage
CancelPayment ==
    /\ payment_page.payment_stage = "review"
    /\ payment_page' =
          rerun([payment_page EXCEPT !.payment_stage = "setup",
                                     !.payment_data = NoPaymentData,
                                     !.op = "cancel"])
    /\ UNCHANGED <<payment_info, extraction, lookup, disk, validation, sessions, history>>
    /\ UNCHANGED caseVars
    /\ UNCHANGED matchVars

\* button "Continue Processing", drawn while a processing step is left
ContinueProcessing ==
    /\ payment_page.payment_stage = "processing"
    /\ payment_page.processing_step < Len(processing_steps)
    /\ payment_page' =
          rerun([payment_page EXCEPT !.processing_step = @ + 1,
                                     !.op = "continue", !.continues = @ + 1])
    /\ UNCHANGED <<payment_info, extraction, lookup, disk, validation, sessions, history>>
    /\ UNCHANGED caseVars
    /\ UNCHANGED matchVars

\* button "Send Confirmation" of the completed stage
SendConfirmation ==
    /\ payment_page.payment_stage = "completed"
    /\ payment_page' = rerun([payment_page EXCEPT !.op = "confirm"])
    /\ UNCHANGED <<payment_info, extraction, lookup, disk, validation, sessions, history>>
    /\ UNCHANGED caseVars
    /\ UNCHANGED matchVars

\* button "New Payment" of the completed stage
NewPayment ==
    /\ payment_page.payment_stage = "completed"
    /\ payment_page' =
          rerun([payment_page EXCEPT !.payment_stage = "setup",
                                     !.payment_data = NoPaymentData,
                                     !.processing_step = 0,
                                     !.op = "new_payment"])
    /\ UNCHANGED <<payment_info, extraction, lookup, disk, validation, sessions, history>>
    /\ UNCHANGED caseVars
    /\ UNCHANGED matchVars

NextPayment ==
    \/ \E payment_amount \in PaymentAmounts, include_fees \in BOOLEAN :
           SetupPayment(payment_amount, include_fees)
    \/ AuthorizePayment
    \/ EditPayment
    \/ CancelPayment
    \/ ContinueProcessing
    \/ SendConfirmation
    \/ NewPayment

SpecPayment == Init /\ [][NextPayment]_vars


----------------------------------------------------------------------------
(* The timeline of the details tab; dates are day numbers, so that
   date + timedelta(days=n) is date + n *)

\* one entry of the timeline (its description is text drawn from the same case)
TimelineEvent(date, name, stage) == [date |-> date, event |-> name, stage |-> stage]

\* a timeline that dates the two closing events at offsets 4 and 5 from
\* date_created
generate_case_timeline_offsets_only(case_data) ==
    LET created == case_data.date_created
        n       == StageIndex(case_data.workflow_stage)
        all     == << TimelineEvent(created, "Case Created", "document_processing"),
                      TimelineEvent(created + 1, "Document Processed", "document_processing"),
                      TimelineEvent(created + 2, "Customer Verified", "customer_verification"),
                      TimelineEvent(created + 3, "Account Frozen", "account_management"),
                      TimelineEvent(created + 4, "Payment Processed", "payment_processing"),
                      TimelineEvent(created + 5, "Case Closed", "completed") >>
    IN  SubSeq(all, 1, IF case_data.workflow_stage = "completed" THEN 6 ELSE n)

\* generate_case_timeline(case_data)
generate_case_timeline(case_data) ==
    LET stage   == case_data.workflow_stage
        created == case_data.date_created
    IN  << TimelineEvent(created, "Case Created", "document_processing") >>
        \o (IF stage \in {"customer_verification", "account_management",
                          "payment_processing", "completed"}
            THEN << TimelineEvent(created + 1, "Document Processed",
                                  "document_processing") >>
            ELSE <<>>)
        \o (IF stage \in {"account_management", "payment_processing", "completed"}
            THEN << TimelineEvent(created + 2, "Customer Verified",
                                  "customer_verification") >>
            ELSE <<>>)
        \o (IF stage \in {"payment_processing", "completed"}
            THEN << TimelineEvent(created + 3, "Account Frozen",
                                  "account_management") >>
            ELSE <<>>)
        \o (IF stage = "completed"
            THEN << TimelineEvent(case_data.last_updated, "Payment Processed",
                                  "payment_processing"),
                    TimelineEvent(case_data.last_updated, "Case Closed",
                                  "completed") >>
            ELSE <<>>)


----------------------------------------------------------------------------
(* The case store called directly, one call after the other *)

\* the ids update_case is called with: ids the store can hold and an id no
\* create_case call produces
StoreIds == {FormatCaseId(2024, n) : n \in 1..(MaxStored + 1)} \cup {"CASE-1999-001"}

\* the updates passed to update_case
StoreUpdates == { [status |-> st] : st \in {"Under Review", "Completed"} }

\* db.create_case(case_data)
StoreCreate(name) ==
    /\ UNCHANGED matchVars
    /\ UNCHANGED otherVars
    /\ Len(cases) < MaxStored
    /\ Elapse
    /\ LET case_data ==
             [ customer_id |-> "CUST-100", customer_name |-> name,
               case_number |-> "CV-NEW", creditor |-> "New Creditor",
               amount_owed |-> 0, garnishment_amount |-> 0,
               documents |-> <<>>, notes |-> <<>> ]
           made == create_case(cases, case_data, clock)
       IN  /\ cases' = made[1]
           /\ event' = Event("store_create", {made[2]}, None, Len(made[1]), FALSE)
           /\ trail' = Append(trail, NewTrail(made[1][Len(made[1])].workflow_stage))
    /\ UNCHANGED <<show_new_case_form, selected_case>>

\* db.update_case(case_id, updates)
StoreUpdate(case_id, updates) ==
    /\ UNCHANGED matchVars
    /\ UNCHANGED otherVars
    /\ Elapse
    /\ cases' = update_case(cases, case_id, updates, clock)
    /\ event' = Event("store_update", {case_id}, None,
                      IF Found(cases, case_id) THEN 1 ELSE 0, FALSE)
    /\ UNCHANGED <<show_new_case_form, selected_case, trail>>

NextStore ==
    \/ Tick
    \/ \E name \in NewCustomerNames : StoreCreate(name)
    \/ \E case_id \in StoreIds, updates \in StoreUpdates : StoreUpdate(case_id, updates)

SpecStore == Init /\ [][NextStore]_vars


----------------------------------------------------------------------------
(* Two sessions on one store: each call reads the whole cases file, works on
   the list it read and writes the whole file back; the read and the write are
   taken as one step each *)

\* the ids and the status values the sessions pass to update_case
RaceIds == {"CASE-2024-001", "CASE-2024-002"}
RaceStatuses == {"Under Review", "Completed"}

\* the case_data a session passes to create_case
RaceCaseData ==
    [ customer_id |-> "CUST-100", customer_name |-> <<"Ann", " - ", "Lee">>,
      case_number |-> "CV-NEW", creditor |-> "New Creditor",
      amount_owed |-> 0, garnishment_amount |-> 0,
      documents |-> <<>>, notes |-> <<>> ]

\* calls begun so far: the ones that returned and the ones under way
CallsBegun ==
    Len(history) + Cardinality({s \in Sessions : sessions[s].pc # "idle"})

\* a call that reads the file again when it comes to write
local_cases_reread(s) == cases

\* the local variable `cases` of a call under way: what get_cases() returned
local_cases(s) == sessions[s].read

\* the list a call under way dumps into the file
dumped(s) ==
    IF sessions[s].fn = "update_case"
    THEN update_case(local_cases(s), sessions[s].case_id,
                     [status |-> sessions[s].status], clock)
    ELSE create_case(local_cases(s), RaceCaseData, clock)[1]

\* what a call under way returns: the new id for create_case
returned(s) ==
    IF sessions[s].fn = "update_case" THEN sessions[s].case_id
    ELSE create_case(local_cases(s), RaceCaseData, clock)[2]

\* update_case up to and including `cases = self.get_cases()`
BeginUpdate(s, case_id, status) ==
    /\ sessions[s].pc = "idle"
    /\ CallsBegun < MaxCalls
    /\ sessions' = [sessions EXCEPT ![s] =
                        [ pc |-> "loaded", fn |-> "update_case",
                          case_id |-> case_id, status |-> status, read |-> cases ]]
    /\ UNCHANGED <<cases, history>>
    /\ UNCHANGED <<clock, show_new_case_form, selected_case, event, trail>>
    /\ UNCHANGED <<payment_info, extraction, lookup, disk, validation, payment_page>>
    /\ UNCHANGED matchVars

\* create_case up to and including `cases = self.get_cases()`
BeginCreate(s) ==
    /\ sessions[s].pc = "idle"
    /\ CallsBegun < MaxCalls
    /\ Len(cases) < MaxStored
    /\ sessions' = [sessions EXCEPT ![s] =
                        [ pc |-> "loaded", fn |-> "create_case",
                          case_id |-> "", status |-> "", read |-> cases ]]
    /\ UNCHANGED <<cases, history>>
    /\ UNCHANGED <<clock, show_new_case_form, selected_case, event, trail>>
    /\ UNCHANGED <<payment_info, extraction, lookup, disk, validation, payment_page>>
    /\ UNCHANGED matchVars

\* the rest of the call: the change on the list read, the dump, the return
FinishCall(s) ==
    /\ sessions[s].pc = "loaded"
    /\ cases' = dumped(s)
    /\ history' = Append(history,
                      [ session |-> s, fn |-> sessions[s].fn,
                        case_id |-> returned(s), status |-> sessions[s].status,
                        raised |-> FALSE ])
    /\ sessions' = [sessions EXCEPT ![s] = IdleSession]
    /\ UNCHANGED <<clock, show_new_case_form, selected_case, event, trail>>
    /\ UNCHANGED <<payment_info, extraction, lookup, disk, validation, payment_page>>
    /\ UNCHANGED matchVars

NextRace ==
    \/ \E s \in Sessions, case_id \in RaceIds, status \in RaceStatuses :
           BeginUpdate(s, case_id, status)
    \/ \E s \in Sessions : BeginCreate(s)
    \/ \E s \in Sessions : FinishCall(s)

SpecRace == Init /\ [][NextRace]_vars


----------------------------------------------------------------------------
(* Case store claims *)

\* C23: a bulk status update to 'Completed' sets the status of every selected
\* case and leaves every workflow_stage as it was, so a selected case that is
\* not in the completed stage is left with status 'Completed' and a stage
\* that is not 'completed': status and stage diverge by bulk status update
\* alone.
C23_BulkStatusLeavesStage ==
    [][event'.op = "bulk_status" =>
          \A i \in DOMAIN cases :
              /\ cases'[i].workflow_stage = cases[i].workflow_stage
              /\ (cases[i].case_id \in event'.ids => cases'[i].status = "Completed")]_vars

\* a seed case never advanced and never closed has status 'Completed' after
\* a bulk status update, and its stage is not 'completed'
C23_Witness ==
    /\ event.op = "bulk_status"
    /\ \E i \in DOMAIN cases :
          /\ cases[i].case_id \in event.ids
          /\ trail[i].advances = 0
          /\ ~trail[i].closed
          /\ cases[i].status = "Completed"
          /\ cases[i].workflow_stage # "completed"

\* C24: Advance All Stages moves every selected case that is not completed to
\* the stage right after its own, leaves every selected completed case and
\* every unselected case as it was, and reports as count the number of cases
\* it moved.
C24_AdvanceAllMovesEachOnce ==
    [][\A sel \in BulkSelections :
          (event'.op = "bulk_advance" /\ event'.ids = {cases[i].case_id : i \in sel}
             /\ AdvanceAll(sel)) =>
             /\ Len(cases') = Len(cases)
             /\ \A i \in DOMAIN cases :
                   IF i \in sel /\ cases[i].workflow_stage # "completed"
                   THEN StageIndex(cases'[i].workflow_stage)
                           = StageIndex(cases[i].workflow_stage) + 1
                   ELSE cases'[i] = cases[i]
             /\ event'.count =
                   Cardinality({i \in sel : cases[i].workflow_stage # "completed"})]_vars

\* Advance All Stages ran over two selected cases, one of them completed
\* already, and reported one case advanced
C24_Witness ==
    /\ event.op = "bulk_advance"
    /\ Cardinality(event.ids) = 2
    /\ event.count = 1
    /\ \E i \in DOMAIN cases :
          /\ cases[i].case_id \in event.ids
          /\ trail[i].closed

\* C25: an Advance Stage that finds a successor changes, in the whole store,
\* the workflow_stage and the last_updated of the targeted case and nothing
\* else: status, ids, dates of creation, customer, amounts, notes and
\* documents of that case, and every other case, stay as they were.
C25_AdvanceFrame ==
    [][(event'.op = "advance" /\ event'.count = 1) =>
          /\ Len(cases') = Len(cases)
          /\ \A i \in DOMAIN cases :
                IF cases[i].case_id \in event'.ids
                THEN cases'[i] = [cases[i] EXCEPT
                                    !.workflow_stage = cases'[i].workflow_stage,
                                    !.last_updated   = cases'[i].last_updated]
                ELSE cases'[i] = cases[i]]_vars

\* an advance moved a case into completed on a later day than another case
\* was last updated, and the case kept a status that is not 'Completed'
C25_Witness ==
    /\ event.op = "advance"
    /\ event.count = 1
    /\ Target.workflow_stage = "completed"
    /\ Target.status # "Completed"
    /\ Target.last_updated = strftime_date(clock - 1)
    /\ \E j \in DOMAIN cases : cases[j].last_updated < Target.last_updated

\* C28: the ids of the stored cases are pairwise distinct in every reachable
\* state; no step shortens the list of cases, and the id a create_case call
\* returns is the id of no case stored before the call.
C28_CaseIdsDistinct ==
    /\ [](\A i, j \in DOMAIN cases :
             cases[i].case_id = cases[j].case_id => i = j)
    /\ [][ /\ Len(cases') >= Len(cases)
           /\ \A name \in NewCustomerNames :
                 StoreCreate(name) =>
                    /\ event'.ids = {cases'[Len(cases')].case_id}
                    /\ \A i \in DOMAIN cases : cases[i].case_id \notin event'.ids ]_vars

\* three cases were created one after the other, with an update between
\* two of the calls
C28_Witness ==
    /\ event.op = "store_create"
    /\ Len(cases) >= Len(SeedCases) + 3
    /\ event.ids = {cases[Len(cases)].case_id}
    /\ \E i \in DOMAIN cases : cases[i].last_updated > cases[i].date_created
                                  /\ i > Len(SeedCases)

\* C29: update_case called with an id that matches no stored case reports
\* no error and writes back every stored case as it was, last_updated
\* included.
C29_UnknownIdChangesNothing ==
    [][\A case_id \in StoreIds, updates \in StoreUpdates :
          (StoreUpdate(case_id, updates) /\ ~Found(cases, case_id))
             => (cases' = cases /\ ~event'.raised /\ event'.count = 0)]_vars

\* update_case was called with an unknown id on a later day than every
\* stored case was last updated, after a case was created
C29_Witness ==
    /\ event.op = "store_update"
    /\ event.count = 0
    /\ ~(\E i \in DOMAIN cases : cases[i].case_id \in event.ids)
    /\ Len(cases) > Len(SeedCases)
    /\ \A i \in DOMAIN cases : cases[i].last_updated < strftime_date(clock - 1)


----------------------------------------------------------------------------
(* Timeline claims *)

\* the stage labels of the events of a full timeline, in order
TimelineLabels == << "document_processing", "document_processing",
                     "customer_verification", "account_management",
                     "payment_processing", "completed" >>

\* C22 as stated: a case at the k-th stage gets k events, labelled with the
\* first k stages in order, each dated date_created plus an offset fixed by
\* its place in the timeline.
C22_OneEventPerStage ==
    \A i \in DOMAIN cases :
        LET timeline == generate_case_timeline(cases[i])
            k        == StageIndex(cases[i].workflow_stage)
        IN  /\ Len(timeline) = k
            /\ \A j \in DOMAIN timeline :
                  /\ j <= Len(workflow_stages) => timeline[j].stage = workflow_stages[j]
                  /\ timeline[j].date = cases[i].date_created + (j - 1)

\* C22: a case at the k-th stage with k <= 4 gets k events and a completed
\* case gets 6; the labels are the first entries of document_processing,
\* document_processing, customer_verification, account_management,
\* payment_processing, completed; the first four events are dated
\* date_created + 0, 1, 2, 3 days and the two closing events of a completed
\* case are dated last_updated.
C22_TimelineShape ==
    \A i \in DOMAIN cases :
        LET timeline == generate_case_timeline(cases[i])
            k        == StageIndex(cases[i].workflow_stage)
        IN  /\ Len(timeline) = IF k = 5 THEN 6 ELSE k
            /\ \A j \in DOMAIN timeline :
                  /\ timeline[j].stage = TimelineLabels[j]
                  /\ timeline[j].date = IF j <= 4
                                        THEN cases[i].date_created + (j - 1)
                                        ELSE cases[i].last_updated

\* the store holds cases in four different stages, one of them created
\* through the form, and a completed case last updated on another day than
\* four days after it was created
C22_Witness ==
    /\ Cardinality({cases[i].workflow_stage : i \in DOMAIN cases}) = 4
    /\ Len(cases) > Len(SeedCases)
    /\ \E i \in DOMAIN cases :
          /\ cases[i].workflow_stage = "completed"
          /\ Len(generate_case_timeline(cases[i])) = 6
          /\ cases[i].last_updated # cases[i].date_created + 4

\* C27: the events of the timeline of every stored case are in chronological
\* order, each dated no earlier than the one before it.
C27_TimelineChronological ==
    \A i \in DOMAIN cases :
        LET timeline == generate_case_timeline(cases[i])
        IN  \A j \in DOMAIN timeline :
                j > 1 => timeline[j].date >= timeline[j - 1].date

\* a case created through the form was closed less than three days after it
\* was created
C27_Witness ==
    /\ event.op = "close"
    /\ \E i \in DOMAIN cases :
          /\ i > Len(SeedCases)
          /\ cases[i].case_id \in event.ids
          /\ cases[i].workflow_stage = "completed"
          /\ cases[i].last_updated < cases[i].date_created + 3


----------------------------------------------------------------------------
(* Affordability claims *)

\* C30: on the same balance, overdraft limit and required amount,
\* validate_account_balance reports sufficient_funds exactly when
\* calculate_payment_capability reports payment_possible, and its shortfall
\* is 0 exactly when the payment is possible.
C30_ChecksAgree ==
    validation.called =>
        /\ validation.sufficient_funds = payment_info.payment_possible
        /\ (validation.shortfall = 0) = payment_info.payment_possible
        /\ validation.account_balance = payment_info.current_balance
        /\ validation.overdraft_limit = payment_info.overdraft_limit
        /\ validation.required_amount = payment_info.required_amount

\* both checks ran on a payment that the balance alone does not cover and
\* the balance with the overdraft limit does
C30_Witness ==
    /\ validation.called
    /\ payment_info.called
    /\ validation.required_amount > validation.account_balance
    /\ validation.overdraft_limit > 0
    /\ validation.sufficient_funds
    /\ validation.shortfall = 0


----------------------------------------------------------------------------
(* Payment page claims *)

\* C26: whenever payment_stage is 'completed', Continue Processing was
\* pressed for all five processing steps since the most recent Authorize.
C26_CompletedAfterAllSteps ==
    payment_page.payment_stage = "completed"
        => payment_page.continues = Len(processing_steps)

\* Setup Payment was submitted while a payment was being processed, with
\* processing steps already done
C26_Witness ==
    /\ payment_page.op = "setup"
    /\ payment_page.payment_stage = "review"
    /\ payment_page.processing_step > 0
    /\ payment_page.continues > 0


----------------------------------------------------------------------------
(* Concurrent sessions *)

\* C21: a call writes back the list it read with its own change and nothing
\* else, whatever the file holds by then, and reports no error: every case
\* but the one it targets is written as the call read it, so an update the
\* other session completed between the call's read and its write is
\* overwritten.
C21_WriteReplacesFile ==
    [][\A s \in Sessions :
          FinishCall(s) =>
             /\ ~history'[Len(history')].raised
             /\ \A i \in DOMAIN sessions[s].read :
                   cases'[i].case_id # sessions[s].case_id
                      => cases'[i] = sessions[s].read[i]
             /\ Len(cases') = Len(sessions[s].read)
                                + (IF sessions[s].fn = "create_case" THEN 1 ELSE 0)]_vars

\* both sessions are back from their calls with no error; the first call to
\* return was an update_case of one session that found its case, no later
\* call targeted that case, and the status it wrote is not in the file
C21_Witness ==
    /\ \A s \in Sessions : sessions[s].pc = "idle"
    /\ Len(history) = 2
    /\ history[1].session # history[2].session
    /\ ~history[1].raised /\ ~history[2].raised
    /\ history[1].fn = "update_case"
    /\ history[2].case_id # history[1].case_id
    /\ \E i \in DOMAIN cases :
          /\ cases[i].case_id = history[1].case_id
          /\ cases[i].status # history[1].status
          /\ SeedCases[i].status # history[1].status
====
